---- MODULE Spec2Model ----
(***************************************************************************)
(* A state-machine model of the Oletools service (oletools_.py): the       *)
(* per-submission lifecycle of execute(), the extraction sink              *)
(* _extract_file, the safelist filter, the IOC pattern matcher             *)
(* _check_for_patterns / _decide_extract and the URI classifier parse_uri. *)
(* Byte strings and text are TLA+ strings; the collaborators the service   *)
(* imports (hashlib, identify, PatternMatch, urlsplit, the assemblyline    *)
(* net helpers) are modelled by what they return on the inputs used.       *)
(***************************************************************************)
EXTENDS Integers, Sequences, FiniteSets, TLC

\* ------------------------------------------------------------------ bounds
\* Longest macro / p-code / XLM list a submission accumulates in the model.
MaxList == 1
\* Most raw pattern hits PatternMatch.ioc_match reports for one buffer.
MaxHits == 2

\* --------------------------------------------------------- string helpers
None == "<None>"

UpperChars == "ABCDEFGHIJKLMNOPQRSTUVWXYZ"
LowerChars == "abcdefghijklmnopqrstuvwxyz"
DigitChars == "0123456789"

CharAt(s, i) == SubSeq(s, i, i)

InChars(c, chars) == \E i \in 1..Len(chars) : CharAt(chars, i) = c

\* bytes.lower() / str.lower() on one character
LowerCh(c) ==
    IF InChars(c, UpperChars)
    THEN CharAt(LowerChars, CHOOSE i \in 1..Len(UpperChars) : CharAt(UpperChars, i) = c)
    ELSE c

UpperCh(c) ==
    IF InChars(c, LowerChars)
    THEN CharAt(UpperChars, CHOOSE i \in 1..Len(LowerChars) : CharAt(LowerChars, i) = c)
    ELSE c

RECURSIVE Lower(_)
Lower(s) == IF Len(s) = 0 THEN "" ELSE LowerCh(CharAt(s, 1)) \o Lower(SubSeq(s, 2, Len(s)))

RECURSIVE Upper(_)
Upper(s) == IF Len(s) = 0 THEN "" ELSE UpperCh(CharAt(s, 1)) \o Upper(SubSeq(s, 2, Len(s)))

StartsWith(s, p) == Len(p) <= Len(s) /\ SubSeq(s, 1, Len(p)) = p

EndsWith(s, p) == Len(p) <= Len(s) /\ SubSeq(s, Len(s) - Len(p) + 1, Len(s)) = p

\* Python's `p in s` on strings
Contains(s, p) ==
    \/ Len(p) = 0
    \/ \E i \in 1..(Len(s) - Len(p) + 1) : SubSeq(s, i, i + Len(p) - 1) = p

\* str.find / str.rfind: 0 when absent, else the 1-based index
Find(s, c) ==
    IF \E i \in 1..Len(s) : CharAt(s, i) = c
    THEN CHOOSE i \in 1..Len(s) : CharAt(s, i) = c /\ \A j \in 1..(i - 1) : CharAt(s, j) # c
    ELSE 0

RFind(s, c) ==
    IF \E i \in 1..Len(s) : CharAt(s, i) = c
    THEN CHOOSE i \in 1..Len(s) : CharAt(s, i) = c /\ \A j \in (i + 1)..Len(s) : CharAt(s, j) # c
    ELSE 0

Range(seq) == {seq[i] : i \in 1..Len(seq)}

\* ------------------------------------------------------------- payloads
\* The byte buffers offered to the sink.  D1 and D2 are identified as some
\* known type, D3 is a blob identify reports as "unknown".
Payloads == {"D1", "D3"}

RECURSIVE Zeros(_)
Zeros(n) == IF n = 0 THEN "" ELSE "0" \o Zeros(n - 1)

HexTail == Zeros(54)

\* the first hex digit of the digests of the streams (S), of the SWF objects
\* (W), of the decoded hex chunks (H) and of the Ole10Native data (N)
HashHead(kind) ==
    CASE kind = "S" -> "5" [] kind = "W" -> "f" [] kind = "H" -> "e" [] OTHER -> "a"

\* hashlib.sha256(data).hexdigest(): 64 hex characters
Sha256Hex(data) ==
    CASE data = "D1" -> "3f2a9c1e7b" \o HexTail
      [] data = "D2" -> "3f2a9c1e55" \o HexTail
      [] Len(data) = 3 /\ SubSeq(data, 1, 1) = "B"
                     -> "b640000" \o SubSeq(data, 2, 3) \o "0" \o HexTail
      [] Len(data) = 3 /\ SubSeq(data, 1, 1) \in {"S", "W", "H", "N"}
                     -> HashHead(SubSeq(data, 1, 1)) \o "0" \o SubSeq(data, 2, 3)
                            \o "000000" \o HexTail
      [] OTHER       -> "c0ffee1234" \o HexTail

\* self.identify.fileinfo(path, generate_hashes=False)["type"]
Identify(data) ==
    CASE data = "D1" -> "document/office/ole"
      [] data = "D2" -> "text/plain"
      [] data = "alert(1)" -> "code/javascript"
      [] OTHER       -> "unknown"

HashPrefixLen == 8
B64LinePrefixLen == 10

WorkingDirectory == "/tmp/work"

\* os.path.join(self.working_directory, file_name)
PathJoin(dir, name) == dir \o "/" \o name

\* hashlib.sha256(data).hexdigest()[:8] + file_name
ArtifactName(data, file_name) == SubSeq(Sha256Hex(data), 1, HashPrefixLen) \o file_name

\* ------------------------------------------------------- class constants
TAG_SAFELIST == <<"management", "manager", "microsoft.com">>

URI_SAFELIST ==
    << "http://purl.org/", "http://xml.org/", ".openxmlformats.org", ".oasis-open.org",
       ".xmlsoap.org", ".microsoft.com", ".w3.org", ".gc.ca", ".mil.ca", "dublincore.org" >>

\* -------------------------------------------------------------- the state
VARIABLES
    pc,                   \* where the service is: "constructed", "idle", "reset", "stages",
                          \* "sections" (the macro sections made)
    deep_scan,            \* request.deep_scan of the current submission
    extracted_files,      \* self._extracted_files, a dict in insertion order
    working_directory,    \* the files written under self.working_directory: name -> data
    request_extracted,    \* what request.add_extracted received, in order
    result_lines,         \* extracted-file names quoted in result lines
    ioc_pattern_safelist, \* self.ioc_pattern_safelist (service configuration)
    ioc_exact_safelist,   \* self.ioc_exact_safelist (service configuration, lower-cased)
    pat_safelist,         \* self.pat_safelist
    tag_safelist,         \* self.tag_safelist
    match_safelist,       \* self.match_safelist: tag type -> list of literals
    regex_safelist,       \* self.regex_safelist: tag type -> list of regexes
    word_chains,          \* self.word_chains, the trigraph table
    macros,               \* self.macros
    xlm_macros,           \* self.xlm_macros
    pcode,                \* self.pcode
    extracted_clsids,     \* self.extracted_clsids
    vba_stomping,         \* self.vba_stomping
    offered,              \* history: the (data, suffix) pairs offered in this submission
    call                  \* history: the last call of a helper, its inputs and its result

svcVars == << pc, deep_scan, request_extracted, result_lines >>
sinkVars == << extracted_files, working_directory, offered >>
safeVars == << ioc_pattern_safelist, ioc_exact_safelist, pat_safelist, tag_safelist,
               match_safelist, regex_safelist, word_chains >>
macroVars == << macros, xlm_macros, pcode, extracted_clsids, vba_stomping >>
vars == << svcVars, sinkVars, safeVars, macroVars, call >>

NoCall == [op |-> "none"]

\* ------------------------------------------------ configuration and tables
TagTypes ==
    { "network.static.uri", "network.static.domain", "network.static.ip",
      "network.email.address", "file.name.extracted", "file.string.api",
      "file.string.blacklisted" }

EmptyTable == [t \in {} |-> <<>>]

\* Mapping.get(tag_type, [])
TableGet(table, tag_type) == IF tag_type \in DOMAIN table THEN table[tag_type] ELSE <<>>

\* config.get("ioc_pattern_safelist", []) as deployed
ConfigPatternLists == { <<>>, <<"example.org">> }
\* config.get("ioc_exact_safelist", []) as deployed
ConfigExactLists == { <<>>, <<"Contoso.Example">> }

\* The "match" and "regex" tables the safelist source may hold, each level
\* holding the entries of the one before it.
TableLevels ==
    << [match |-> EmptyTable, regex |-> EmptyTable],
       [match |-> [t \in {"network.static.domain"} |-> <<"Evil.Example">>],
        regex |-> [t \in {"network.static.uri"} |-> <<"evil\\.example">>]],
       [match |-> [t \in {"network.static.domain", "file.string.api"} |->
                     IF t = "network.static.domain" THEN <<"Evil.Example">>
                     ELSE <<"powershell">>],
        regex |-> [t \in {"network.static.uri", "file.name.extracted"} |->
                     IF t = "network.static.uri" THEN <<"evil\\.example", "https?://evil">>
                     ELSE <<".*\\.exe$">>]] >>

MatchTables == {TableLevels[k].match : k \in 1..Len(TableLevels)}

RegexTables == {TableLevels[k].regex : k \in 1..Len(TableLevels)}

\* What get_api_interface().get_safelist() may answer for a deployment whose
\* default tables are those of __init__: the same tables.
SafelistSources == { [match |-> match_safelist, regex |-> regex_safelist] }

\* chains.json.gz, loaded by start()
\* one letter -> the pairs of letters seen after it
LoadedWordChains == [p \in {"t", "h"} |-> IF p = "t" THEN {"he", "ha"} ELSE {"ei", "er"}]

\* [string.lower() for string in ...]
LowerAll(list) == [i \in 1..Len(list) |-> Lower(list[i])]

Init ==
    /\ pc = "constructed"
    /\ deep_scan = FALSE
    /\ extracted_files = <<>>
    /\ working_directory = EmptyTable
    /\ request_extracted = <<>>
    /\ result_lines = {}
    /\ ioc_pattern_safelist \in ConfigPatternLists
    /\ \E cfg \in ConfigExactLists : ioc_exact_safelist = LowerAll(cfg)
    /\ pat_safelist = URI_SAFELIST
    /\ tag_safelist = TAG_SAFELIST
    /\ match_safelist \in MatchTables
    /\ regex_safelist \in RegexTables
    /\ word_chains = EmptyTable
    /\ macros = <<>>
    /\ xlm_macros = <<>>
    /\ pcode = <<>>
    /\ extracted_clsids = {}
    /\ vba_stomping = FALSE
    /\ offered = {}
    /\ call = NoCall

\* ----------------------------------------------------------- the service
\* start(): load the trigraph table, then fetch the safelist from the API;
\* a ServiceAPIError keeps the tables __init__ loaded.
Start ==
    /\ pc = "constructed"
    /\ pc' = "idle"
    /\ word_chains' = LoadedWordChains
    /\ \/ \E api \in SafelistSources :
            /\ match_safelist' = api.match
            /\ regex_safelist' = api.regex
       \/ UNCHANGED << match_safelist, regex_safelist >>
    /\ UNCHANGED << deep_scan, request_extracted, result_lines, sinkVars, macroVars, call,
                    ioc_pattern_safelist, ioc_exact_safelist, pat_safelist, tag_safelist >>

\* execute() as it would be without the reset of self.macros.
ExecuteBeginKeepsMacros ==
    /\ pc = "idle"
    /\ pc' = "reset"
    /\ \E ds \in BOOLEAN :
        /\ deep_scan' = ds
        /\ IF ds
           THEN /\ pat_safelist' = URI_SAFELIST
                /\ tag_safelist' = TAG_SAFELIST
           ELSE /\ pat_safelist' = URI_SAFELIST \o ioc_pattern_safelist
                /\ tag_safelist' = TAG_SAFELIST \o ioc_exact_safelist
    /\ extracted_files' = <<>>
    /\ extracted_clsids' = {}
    /\ xlm_macros' = <<>>
    /\ pcode' = <<>>
    /\ vba_stomping' = FALSE
    /\ request_extracted' = <<>>
    /\ result_lines' = {}
    /\ offered' = {}
    /\ call' = NoCall
    /\ UNCHANGED << macros, working_directory, ioc_pattern_safelist, ioc_exact_safelist,
                    match_safelist, regex_safelist, word_chains >>

\* execute() as it would be if a deep scan left the safelist profile of the
\* previous submission in place.
ExecuteBeginKeepsProfile ==
    /\ pc = "idle"
    /\ pc' = "reset"
    /\ \E ds \in BOOLEAN :
        /\ deep_scan' = ds
        /\ IF ds
           THEN UNCHANGED << pat_safelist, tag_safelist >>
           ELSE /\ pat_safelist' = URI_SAFELIST \o ioc_pattern_safelist
                /\ tag_safelist' = TAG_SAFELIST \o ioc_exact_safelist
    /\ extracted_files' = <<>>
    /\ extracted_clsids' = {}
    /\ macros' = <<>>
    /\ xlm_macros' = <<>>
    /\ pcode' = <<>>
    /\ vba_stomping' = FALSE
    /\ request_extracted' = <<>>
    /\ result_lines' = {}
    /\ offered' = {}
    /\ call' = NoCall
    /\ UNCHANGED << working_directory, ioc_pattern_safelist, ioc_exact_safelist,
                    match_safelist, regex_safelist, word_chains >>

\* execute(), lines 407-428: reset the per-submission state and pick the
\* safelist profile from request.deep_scan.
ExecuteBegin ==
    /\ pc = "idle"
    /\ pc' = "reset"
    /\ \E ds \in BOOLEAN :
        /\ deep_scan' = ds
        /\ IF ds
           THEN /\ pat_safelist' = URI_SAFELIST
                /\ tag_safelist' = TAG_SAFELIST
           ELSE /\ pat_safelist' = URI_SAFELIST \o ioc_pattern_safelist
                /\ tag_safelist' = TAG_SAFELIST \o ioc_exact_safelist
    /\ extracted_files' = <<>>
    /\ extracted_clsids' = {}
    /\ macros' = <<>>
    /\ xlm_macros' = <<>>
    /\ pcode' = <<>>
    /\ vba_stomping' = FALSE
    /\ request_extracted' = <<>>
    /\ result_lines' = {}
    /\ offered' = {}
    /\ call' = NoCall
    /\ UNCHANGED << working_directory, ioc_pattern_safelist, ioc_exact_safelist,
                    match_safelist, regex_safelist, word_chains >>

InStages == pc \in {"reset", "stages"}

\* dict[key] = value on an insertion-ordered dict
DictSet(d, key, value) ==
    IF \E i \in 1..Len(d) : d[i].name = key
    THEN [i \in 1..Len(d) |->
            IF d[i].name = key THEN [name |-> key, description |-> value] ELSE d[i]]
    ELSE Append(d, [name |-> key, description |-> value])

DictKeys(d) == {d[i].name : i \in 1..Len(d)}

\* open(file_path, "wb").write(data)
FileWrite(wd, name, data) ==
    [n \in DOMAIN wd \cup {name} |-> IF n = name THEN data ELSE wd[n]]

\* What may go wrong inside _extract_file's try block: nothing, the file
\* cannot be opened, or identification raises after the file was written.
Faults == {"none", "open", "identify"}

\* _extract_file as it would be without the check of the identified type.
ExtractFileEffectNoTypeCheck(data, file_name, description, fault) ==
    LET name == ArtifactName(data, file_name)
        file_path == PathJoin(WorkingDirectory, name)
        written == IF fault = "open" THEN working_directory
                   ELSE FileWrite(working_directory, name, data)
    IN  IF fault # "none"
        THEN [files |-> extracted_files, wd |-> written, ret |-> None]
        ELSE [files |-> DictSet(extracted_files, name, description),
              wd |-> written, ret |-> file_path]

\* _extract_file(data, file_name, description): the new registry, the new
\* working directory and the value returned.
ExtractFileEffect(data, file_name, description, fault) ==
    LET name == ArtifactName(data, file_name)
        file_path == PathJoin(WorkingDirectory, name)
        written == IF fault = "open" THEN working_directory
                   ELSE FileWrite(working_directory, name, data)
    IN  IF fault # "none"
        THEN [files |-> extracted_files, wd |-> written, ret |-> None]
        ELSE IF Identify(data) = "unknown"
        THEN [files |-> extracted_files, wd |-> written, ret |-> None]
        ELSE [files |-> DictSet(extracted_files, name, description),
              wd |-> written, ret |-> file_path]

\* One call of _extract_file and the record of it.
ExtractFileCall(data, file_name, description, fault) ==
    LET eff == ExtractFileEffect(data, file_name, description, fault)
    IN  /\ InStages
        /\ pc' = "stages"
        /\ extracted_files' = eff.files
        /\ working_directory' = eff.wd
        /\ offered' = offered \cup {<< data, file_name >>}
        /\ call' = [op |-> "_extract_file", data |-> data, file_name |-> file_name,
                    fault |-> fault, ret |-> eff.ret,
                    seen |-> << data, file_name >> \in offered,
                    registered |-> ArtifactName(data, file_name) \in DictKeys(extracted_files),
                    changed |-> eff.files # extracted_files]

Suffixes == {".ole_stream", "_b64_decoded"}

Descriptions == {"Embedded OLE Stream A", "Embedded OLE Stream B"}

\* Any caller offering any payload to the sink.
SinkOffer ==
    /\ \E data \in Payloads, file_name \in Suffixes, description \in Descriptions,
          fault \in Faults :
            ExtractFileCall(data, file_name, description, fault)
    /\ UNCHANGED << deep_scan, request_extracted, result_lines, safeVars, macroVars >>

\* _process_ole_file, line 821: a stream is offered as an .ole_stream artifact.
ProcessOleStream ==
    /\ ExtractFileCall("D1", ".ole_stream", "Embedded OLE Stream A", "none")
    /\ UNCHANGED << deep_scan, request_extracted, result_lines, safeVars, macroVars >>

MAX_STRINGDUMP_CHARS == 500
MAX_BASE64_CHARS == 8000000

\* A run of count equal bytes; a decoded payload is kept as its runs, so the
\* payloads at the size limits have their exact lengths.
Run(b, n) == [byte |-> b, count |-> n]

\* the (byte, count) runs of seven letters, each n times
SevenLetters(n) ==
    << Run(97, n), Run(98, n), Run(99, n), Run(100, n), Run(101, n), Run(102, n),
       Run(103, n) >>

\* base64data of the candidates find_base64 may decode, by name
B64Content ==
    [ B01 |-> << Run(65, 30) >>,
      B02 |-> << Run(97, 5), Run(98, 5), Run(99, 5), Run(100, 4), Run(101, 4),
                 Run(102, 4), Run(103, 4) >>,
      B03 |-> << Run(97, 10), Run(98, 10), Run(99, 5), Run(100, 5), Run(101, 5),
                 Run(102, 5) >>,
      B04 |-> SevenLetters(2) \o << Run(32, 26) >>,
      B05 |-> SevenLetters(2) \o << Run(32, 24), Run(104, 1) >>,
      B07 |-> << Run(97, 6), Run(98, 6), Run(99, 6), Run(100, 6), Run(101, 6),
                 Run(102, 6), Run(200, 6), Run(10, 3), Run(9, 3) >>,
      B08 |-> << Run(97, 494) >> \o SevenLetters(1) ,
      B10 |-> << Run(60, 1), Run(104, 500) >>,
      B11 |-> << Run(0, 7999999) >>,
      B12 |-> << Run(0, 8000000) >>,
      B13 |-> << Run(0, 300), Run(255, 201) >>,
      B14 |-> << Run(119, 3), Run(46, 1), Run(109, 1), Run(105, 1), Run(99, 1),
                 Run(114, 1), Run(111, 1), Run(115, 1), Run(111, 1), Run(102, 1),
                 Run(116, 1), Run(46, 1), Run(99, 1), Run(111, 1), Run(109, 1),
                 Run(32, 20) >> ]

RECURSIVE RunsLen(_)
\* len(data) of a payload given as runs
RunsLen(runs) ==
    IF runs = << >> THEN 0 ELSE Head(runs).count + RunsLen(Tail(runs))

\* len(base64data) of the payloads find_base64 decodes
DecodedLen(data) ==
    CASE data = "D1" -> 600
      [] data = "D2" -> 40
      [] data \in DOMAIN B64Content -> RunsLen(B64Content[data])
      [] OTHER       -> 4096

\* magic.Magic(mime=True).from_buffer(base64data)
MimeType(data) ==
    CASE data = "D1" -> "application/octet-stream"
      [] data = "D2" -> "text/plain"
      [] data \in {"B10", "B14"} -> "text/plain"
      [] OTHER       -> "application/octet-stream"

\* _check_for_b64, lines 2217-2229 and 2245-2255: a decoded payload above the
\* dump size whose MIME type is octet-stream is offered as "_b64_decoded" and
\* the result line quotes the extracted file.
CheckForB64File ==
    /\ \E data \in Payloads, fault \in Faults :
        /\ MAX_BASE64_CHARS > DecodedLen(data) /\ DecodedLen(data) > 30
        /\ DecodedLen(data) > MAX_STRINGDUMP_CHARS
        /\ Contains(MimeType(data), "octet-stream")
        /\ ExtractFileCall(data, "_b64_decoded",
                           "Extracted b64 file during OLETools analysis", fault)
        /\ result_lines' = result_lines \cup
              { [payload |-> data,
                 file |-> SubSeq(Sha256Hex(data), 1, B64LinePrefixLen) \o "_b64_decoded"] }
    /\ UNCHANGED << deep_scan, request_extracted, safeVars, macroVars >>

Clsids == {"00020906-0000-0000-C000-000000000046"}

\* _process_ole_clsid, lines 1045-1047
ProcessOleClsid ==
    /\ InStages
    /\ pc' = "stages"
    /\ \E ole_clsid \in Clsids :
        /\ ole_clsid \notin extracted_clsids
        /\ extracted_clsids' = extracted_clsids \cup {ole_clsid}
    /\ UNCHANGED << deep_scan, request_extracted, result_lines, sinkVars, safeVars,
                    macros, xlm_macros, pcode, vba_stomping, call >>

MacroTexts == {"Sub AutoOpen()"}

\* _process_ole10native, line 1093: an embedded .vbs is kept as a macro
ProcessOle10Native ==
    /\ InStages
    /\ pc' = "stages"
    /\ Len(macros) < MaxList
    /\ \E text \in MacroTexts : macros' = Append(macros, text)
    /\ UNCHANGED << deep_scan, request_extracted, result_lines, sinkVars, safeVars,
                    xlm_macros, pcode, extracted_clsids, vba_stomping, call >>

\* _check_for_macros, lines 1537-1570: stomping flag, p-code, XLM macros and
\* the VBA macros the parser reports.
CheckForMacros ==
    /\ InStages
    /\ pc' = "stages"
    /\ \E stomped \in BOOLEAN, has_pcode \in BOOLEAN, has_xlm \in BOOLEAN, has_vba \in BOOLEAN :
        /\ vba_stomping' = (vba_stomping \/ stomped)
        /\ pcode' = IF has_pcode /\ Len(pcode) < MaxList
                    THEN Append(pcode, "Line #0: FuncDefn") ELSE pcode
        /\ xlm_macros' = IF has_xlm THEN <<"=EXEC()">> ELSE xlm_macros
        /\ macros' = IF has_vba /\ Len(macros) < MaxList
                     THEN Append(macros, "Sub AutoOpen()") ELSE macros
    /\ UNCHANGED << deep_scan, request_extracted, result_lines, sinkVars, safeVars,
                    extracted_clsids, call >>

MaxExtractedChoices == {1, 2}

\* execute(), lines 464-477: hand the registry to request.add_extracted until
\* MaxExtractedExceeded stops the loop.
ExecuteEnd ==
    /\ InStages \/ pc = "sections"
    /\ pc' = "idle"
    /\ \E max_extracted \in MaxExtractedChoices :
        request_extracted' =
            IF Len(extracted_files) <= max_extracted THEN extracted_files
            ELSE SubSeq(extracted_files, 1, max_extracted)
    /\ UNCHANGED << deep_scan, result_lines, sinkVars, safeVars, macroVars, call >>

\* ------------------------------------------------------ safelist filter
\* The regular expressions of the safelist tables, in the syntax the tables
\* of the model use: literals, ".", "\x" escapes, "*" and "?" after an atom,
\* a leading "^" and a trailing "$".
AtomLen(re) == IF CharAt(re, 1) = "\\" THEN 2 ELSE 1

\* one atom against one character, under re.IGNORECASE
AtomMatches(re, c) ==
    IF CharAt(re, 1) = "\\" THEN LowerCh(CharAt(re, 2)) = LowerCh(c)
    ELSE IF CharAt(re, 1) = "." THEN TRUE
    ELSE LowerCh(CharAt(re, 1)) = LowerCh(c)

RECURSIVE ReHere(_, _)
\* whether regex re matches a prefix of s
ReHere(re, s) ==
    IF Len(re) = 0 THEN TRUE
    ELSE IF re = "$" THEN Len(s) = 0
    ELSE LET n == AtomLen(re)
             rest == SubSeq(re, n + 1, Len(re))
             quant == IF Len(rest) > 0 THEN CharAt(rest, 1) ELSE ""
             after == SubSeq(rest, 2, Len(rest))
         IN  IF quant = "*"
             THEN \E k \in 0..Len(s) :
                    /\ \A j \in 1..k : AtomMatches(re, CharAt(s, j))
                    /\ ReHere(after, SubSeq(s, k + 1, Len(s)))
             ELSE IF quant = "?"
             THEN \/ ReHere(after, s)
                  \/ /\ Len(s) > 0
                     /\ AtomMatches(re, CharAt(s, 1))
                     /\ ReHere(after, SubSeq(s, 2, Len(s)))
             ELSE /\ Len(s) > 0
                  /\ AtomMatches(re, CharAt(s, 1))
                  /\ ReHere(rest, SubSeq(s, 2, Len(s)))

\* re.search(regex, tag, re.IGNORECASE): a match starting anywhere
ReSearch(regex, tag) ==
    IF StartsWith(regex, "^") THEN ReHere(SubSeq(regex, 2, Len(regex)), tag)
    ELSE \E k \in 0..Len(tag) : ReHere(regex, SubSeq(tag, k + 1, Len(tag)))

\* re.match(regex, tag, re.IGNORECASE): a match starting at the first character
ReMatch(regex, tag) ==
    ReHere(IF StartsWith(regex, "^") THEN SubSeq(regex, 2, Len(regex)) ELSE regex, tag)

\* tag_contains_match(tag, matches)
tag_contains_match(tag, matches) ==
    \E i \in 1..Len(matches) : Lower(matches[i]) = Lower(tag)

\* regex_matches_tag with re.search in the place of re.match
regex_searches_tag(tag, regexes) ==
    \E i \in 1..Len(regexes) : ReSearch(regexes[i], tag)

\* regex_matches_tag(tag, regexes)
regex_matches_tag(tag, regexes) ==
    \E i \in 1..Len(regexes) : ReMatch(regexes[i], tag)

\* the module-level is_safelisted(tag_type, tag, safelist_matches, safelist_regexes)
is_safelisted(tag_type, tag, safelist_matches, safelist_regexes) ==
    \/ tag_contains_match(tag, TableGet(safelist_matches, tag_type))
    \/ regex_matches_tag(tag, TableGet(safelist_regexes, tag_type))

\* The safelist state a call reads: both built-in lists and both tables.
CurrentSafelist ==
    [pat |-> pat_safelist, tag |-> tag_safelist,
     match |-> match_safelist, regex |-> regex_safelist]

\* Oletools.is_safelisted(tag_type, tag) reading safelist state S
SafelistedUnder(S, tag_type, tag) ==
    \/ \E i \in 1..Len(S.pat) : Contains(tag, S.pat[i])
    \/ Lower(tag) \in Range(S.tag)
    \/ is_safelisted(tag_type, tag, S.match, S.regex)

\* Oletools.is_safelisted(tag_type, tag)
Oletools_is_safelisted(tag_type, tag) == SafelistedUnder(CurrentSafelist, tag_type, tag)

\* safe_str(ioc): printable ASCII stays as it is, a tab is escaped
SafeStrCh(c) == IF c = "\t" THEN "\\x09" ELSE c

RECURSIVE safe_str(_)
safe_str(s) == IF Len(s) = 0 THEN "" ELSE SafeStrCh(CharAt(s, 1)) \o safe_str(SubSeq(s, 2, Len(s)))

\* --------------------------------------------------- IOC pattern matcher
PAT_ENDS ==
    {"themeManager.xml", "MSO.DLL", "stdole2.tlb", "vbaProject.bin", "VBE6.DLL", "VBE7.DLL"}

BLACKLIST_IGNORE ==
    {"connect", "protect", "background", "enterprise", "account", "waiting", "request"}

FILES_OF_INTEREST ==
    { ".APK", ".APP", ".BAT", ".BIN", ".CLASS", ".CMD", ".DAT", ".DLL", ".EPS", ".EXE",
      ".JAR", ".JS", ".JSE", ".LNK", ".MSI", ".OSX", ".PAF", ".PS1", ".RAR", ".SCR",
      ".SCT", ".SWF", ".SYS", ".TMP", ".VBE", ".VBS", ".WSF", ".WSH", ".ZIP" }

ExcelBinPrefixes == {"sheet", "printerSettings", "queryTable", "binaryIndex", "table"}
ExcelBinMaxDigits == 12

\* re.match(self.EXCEL_BIN_RE, ioc)
ExcelBinMatch(ioc) ==
    \E prefix \in ExcelBinPrefixes :
        /\ StartsWith(ioc, prefix)
        /\ \E k \in 1..ExcelBinMaxDigits :
            /\ Len(prefix) + k <= Len(ioc)
            /\ \A j \in 1..k : InChars(CharAt(ioc, Len(prefix) + j), DigitChars)
            /\ StartsWith(SubSeq(ioc, Len(prefix) + k + 1, Len(ioc)), ".bin")

\* os.path.splitext(val)[1]
SplitExt(val) ==
    LET sep == RFind(val, "/")
        dot == RFind(val, ".")
    IN  IF dot > sep /\ \E j \in (sep + 1)..(dot - 1) : CharAt(val, j) # "."
        THEN SubSeq(val, dot, Len(val))
        ELSE ""

\* _decide_extract(ty, val, basic_only)
decide_extract(ty, val, basic_only) ==
    IF ty = "file.name.extracted" /\ StartsWith(val, "oleObject") THEN FALSE
    ELSE IF /\ ty = "file.name.extracted"
            /\ SplitExt(val) # ""
            /\ Upper(SplitExt(val)) \notin FILES_OF_INTEREST
    THEN FALSE
    ELSE ~ ( \/ (ty = "file.string.blacklisted" /\ val = "http")
             \/ /\ ~basic_only
                /\ \/ ty = "network.email.address"
                   \/ (ty = "file.string.api" /\ Lower(val) = "connect")
                   \/ (ty = "file.string.blacklisted" /\ Lower(val) \in BLACKLIST_IGNORE) )

\* found_tags[tag_type].add(ioc) on a defaultdict(set)
TagsAdd(found_tags, tag_type, ioc) ==
    [t \in DOMAIN found_tags \cup {tag_type} |->
        IF t = tag_type
        THEN (IF t \in DOMAIN found_tags THEN found_tags[t] ELSE {}) \cup {ioc}
        ELSE found_tags[t]]

\* The body of the loop over the raw hits as it would be with the safelist
\* test inverted.
CheckOneInverted(S, hit, include_fpos, acc) ==
    IF (\E e \in PAT_ENDS : EndsWith(hit.ioc, e))
          \/ ~SafelistedUnder(S, hit.type, safe_str(hit.ioc))
    THEN acc
    ELSE IF ~include_fpos /\ hit.type = "file.name.extracted" /\ ExcelBinMatch(hit.ioc)
    THEN acc
    ELSE [tags |-> TagsAdd(acc.tags, hit.type, hit.ioc),
          extract |-> acc.extract \/ decide_extract(hit.type, hit.ioc, include_fpos)]

\* The body of the loop as it would be if the key of found_tags were created
\* before the filters.
CheckOneEagerKey(S, hit, include_fpos, acc) ==
    LET touched == [t \in DOMAIN acc.tags \cup {hit.type} |->
                        IF t \in DOMAIN acc.tags THEN acc.tags[t] ELSE {}]
    IN  IF (\E e \in PAT_ENDS : EndsWith(hit.ioc, e))
              \/ SafelistedUnder(S, hit.type, safe_str(hit.ioc))
        THEN [tags |-> touched, extract |-> acc.extract]
        ELSE IF ~include_fpos /\ hit.type = "file.name.extracted" /\ ExcelBinMatch(hit.ioc)
        THEN [tags |-> touched, extract |-> acc.extract]
        ELSE [tags |-> TagsAdd(acc.tags, hit.type, hit.ioc),
              extract |-> acc.extract \/ decide_extract(hit.type, hit.ioc, include_fpos)]

\* The body of the loop as it would be if the extraction decision were taken
\* before the filters.
CheckOneDecideFirst(S, hit, include_fpos, acc) ==
    LET decided == acc.extract \/ decide_extract(hit.type, hit.ioc, include_fpos)
    IN  IF (\E e \in PAT_ENDS : EndsWith(hit.ioc, e))
              \/ SafelistedUnder(S, hit.type, safe_str(hit.ioc))
        THEN [tags |-> acc.tags, extract |-> decided]
        ELSE IF ~include_fpos /\ hit.type = "file.name.extracted" /\ ExcelBinMatch(hit.ioc)
        THEN [tags |-> acc.tags, extract |-> decided]
        ELSE [tags |-> TagsAdd(acc.tags, hit.type, hit.ioc), extract |-> decided]

\* _check_for_patterns, lines 2162-2168: one raw hit against the filters
CheckOne(S, hit, include_fpos, acc) ==
    IF (\E e \in PAT_ENDS : EndsWith(hit.ioc, e))
          \/ SafelistedUnder(S, hit.type, safe_str(hit.ioc))
    THEN acc
    ELSE IF ~include_fpos /\ hit.type = "file.name.extracted" /\ ExcelBinMatch(hit.ioc)
    THEN acc
    ELSE [tags |-> TagsAdd(acc.tags, hit.type, hit.ioc),
          extract |-> acc.extract \/ decide_extract(hit.type, hit.ioc, include_fpos)]

RECURSIVE CheckLoop(_, _, _, _)
\* the loops of lines 2160-2168 over the hits still to visit
CheckLoop(S, hits, include_fpos, acc) ==
    IF hits = {} THEN acc
    ELSE LET hit == CHOOSE h \in hits : TRUE
         IN  CheckLoop(S, hits \ {hit}, include_fpos, CheckOne(S, hit, include_fpos, acc))

\* _check_for_patterns(data, include_fpos) reading safelist state S, where
\* patterns_found is what self.patterns.ioc_match(data, bogon_ip=True) found
CheckForPatternsUnder(S, patterns_found, include_fpos) ==
    CheckLoop(S, patterns_found, include_fpos, [tags |-> EmptyTable, extract |-> FALSE])

Hit(ty, ioc) == [type |-> ty, ioc |-> ioc]

\* The raw hits PatternMatch may report in the buffers of the model.
HitUniverse ==
    { Hit("file.name.extracted", "sheet12.bin"),
      Hit("file.name.extracted", "oleObject1.bin"),
      Hit("file.name.extracted", "payload.exe"),
      Hit("file.name.extracted", "notes.txt"),
      Hit("file.name.extracted", "word/vbaProject.bin"),
      Hit("file.string.blacklisted", "http"),
      Hit("file.string.blacklisted", "Protect"),
      Hit("file.string.blacklisted", "powershell"),
      Hit("file.string.api", "Connect"),
      Hit("file.string.api", "powershell"),
      Hit("network.email.address", "a@example.org"),
      Hit("network.static.uri", "http://evil.example/a"),
      Hit("network.static.domain", "Evil.Example"),
      Hit("network.static.domain", "www.microsoft.com") }

RECURSIVE HitSets(_)
\* the sets of at most n raw hits
HitSets(n) ==
    IF n = 0 THEN {{}}
    ELSE LET smaller == HitSets(n - 1)
         IN  smaller \cup {hs \cup {h} : hs \in smaller, h \in HitUniverse}

Buffers == HitSets(MaxHits)

\* A caller runs _check_for_patterns on a buffer.  The call reads the
\* safelist state alone, so it is taken from the start of the stages.
CheckForPatterns ==
    /\ pc = "reset"
    /\ pc' = "stages"
    /\ \E patterns_found \in Buffers, include_fpos \in BOOLEAN :
        LET r == CheckForPatternsUnder(CurrentSafelist, patterns_found, include_fpos)
        IN  call' = [op |-> "_check_for_patterns", found |-> patterns_found,
                     include_fpos |-> include_fpos, tags |-> r.tags, extract |-> r.extract]
    /\ UNCHANGED << deep_scan, request_extracted, result_lines, sinkVars, safeVars, macroVars >>

\* The (tag type, value) pairs is_safelisted is asked about in the model.
SafelistQueries ==
    {<< h.type, safe_str(h.ioc) >> : h \in HitUniverse}
        \cup {<< "network.static.domain", v >> : v \in {"powershell", "CONTOSO.example", "Manager"}}
        \cup {<< "network.static.uri", v >> : v \in {"http://www.w3.org/2000", "see http://evil.example/"}}

\* A caller asks Oletools.is_safelisted about a tag.
IsSafelisted ==
    /\ pc = "reset"
    /\ pc' = "stages"
    /\ \E q \in SafelistQueries :
        call' = [op |-> "is_safelisted", tag_type |-> q[1], tag |-> q[2],
                 ret |-> Oletools_is_safelisted(q[1], q[2])]
    /\ UNCHANGED << deep_scan, request_extracted, result_lines, sinkVars, safeVars, macroVars >>

\* ------------------------------------------------------------ URI parser
Take(s, n) == SubSeq(s, 1, n)

Drop(s, n) == SubSeq(s, n + 1, Len(s))

AllIn(s, chars) == \A i \in 1..Len(s) : InChars(CharAt(s, i), chars)

\* the first position of s holding one of chars, 0 when there is none
FindAny(s, chars) ==
    IF \E i \in 1..Len(s) : InChars(CharAt(s, i), chars)
    THEN CHOOSE i \in 1..Len(s) :
            /\ InChars(CharAt(s, i), chars)
            /\ \A j \in 1..(i - 1) : ~InChars(CharAt(s, j), chars)
    ELSE 0

Whitespace == " "

RECURSIVE LStrip(_)
LStrip(s) ==
    IF Len(s) > 0 /\ InChars(CharAt(s, 1), Whitespace) THEN LStrip(Drop(s, 1)) ELSE s

\* check_uri.split(maxsplit=1): the first whitespace-delimited token, "" when
\* the split is empty
FirstToken(s) ==
    LET t == LStrip(s)
        i == FindAny(t, Whitespace)
    IN  IF i = 0 THEN t ELSE Take(t, i - 1)

SchemeChars == LowerChars \o UpperChars \o DigitChars \o "+-."

\* str.partition(sep)[0] and [2] for a one-character separator
Before(s, sep) == IF Find(s, sep) = 0 THEN s ELSE Take(s, Find(s, sep) - 1)

After(s, sep) == IF Find(s, sep) = 0 THEN "" ELSE Drop(s, Find(s, sep))

\* urllib.parse.urlsplit: scheme, netloc, path, query and fragment of a
\* token, or the "Invalid IPv6 URL" error for an unbalanced bracket
urlsplit(url) ==
    LET i == Find(url, ":")
        has_scheme == /\ i > 1
                      /\ InChars(CharAt(url, 1), LowerChars \o UpperChars)
                      /\ AllIn(Take(url, i - 1), SchemeChars)
        scheme == IF has_scheme THEN Lower(Take(url, i - 1)) ELSE ""
        rest == IF has_scheme THEN Drop(url, i) ELSE url
        has_netloc == StartsWith(rest, "//")
        after == Drop(rest, 2)
        delim == FindAny(after, "/?#")
        netloc == IF ~has_netloc THEN ""
                  ELSE IF delim = 0 THEN after ELSE Take(after, delim - 1)
        tail == IF ~has_netloc THEN rest
                ELSE IF delim = 0 THEN "" ELSE Drop(after, delim - 1)
        no_frag == Before(tail, "#")
    IN  [error |-> (Find(netloc, "[") > 0) # (Find(netloc, "]") > 0),
         scheme |-> scheme,
         netloc |-> netloc,
         path |-> Before(no_frag, "?"),
         query |-> After(no_frag, "?"),
         fragment |-> After(tail, "#")]

\* SplitResult.hostname: userinfo, brackets and port removed, lower-cased
hostname(url) ==
    LET at == RFind(url.netloc, "@")
        hostinfo == Drop(url.netloc, at)
        host == IF Find(hostinfo, "[") > 0
                THEN Before(After(hostinfo, "["), "]")
                ELSE Before(hostinfo, ":")
    IN  Lower(host)

\* SplitResult.geturl() of a result that has a netloc
geturl(url) ==
    (IF url.scheme # "" THEN url.scheme \o ":" ELSE "")
        \o "//" \o url.netloc
        \o (IF url.path # "" /\ ~StartsWith(url.path, "/") THEN "/" ELSE "") \o url.path
        \o (IF url.query # "" THEN "?" \o url.query ELSE "")
        \o (IF url.fragment # "" THEN "#" \o url.fragment ELSE "")

RECURSIVE SplitDot(_)
\* str.split(".")
SplitDot(s) ==
    IF Find(s, ".") = 0 THEN <<s>>
    ELSE <<Before(s, ".")>> \o SplitDot(After(s, "."))

\* top-level domains the domain validator knows
KnownTlds == {"COM", "ORG", "NET"}

\* assemblyline's is_valid_domain: no "@", a dot, and a known top-level domain
is_valid_domain(domain) ==
    /\ Find(domain, "@") = 0
    /\ Find(domain, ".") > 0
    /\ LET labels == SplitDot(domain)
       IN  Upper(labels[Len(labels)]) \in KnownTlds

HexChars == "0123456789abcdef"

\* the base inet_aton reads a part in: 0x prefix hexadecimal, 0 prefix octal
NumBase(p) ==
    IF Len(p) > 2 /\ Lower(Take(p, 2)) = "0x" THEN 16
    ELSE IF Len(p) > 1 /\ CharAt(p, 1) = "0" THEN 8
    ELSE 10

NumDigits(p) == IF NumBase(p) = 16 THEN Lower(Drop(p, 2)) ELSE p

\* Most digits of a part the model converts; longer parts are rejected.
MaxNumDigits == 7

RECURSIVE DigitsVal(_, _)
DigitsVal(ds, base) ==
    IF Len(ds) = 0 THEN 0
    ELSE base * DigitsVal(Take(ds, Len(ds) - 1), base)
            + (CHOOSE d \in 0..15 : CharAt(HexChars, d + 1) = CharAt(ds, Len(ds)))

\* a number inet_aton accepts as one part
IsDec(p) ==
    /\ Len(NumDigits(p)) \in 1..MaxNumDigits
    /\ AllIn(NumDigits(p), Take(HexChars, NumBase(p)))

DecVal(p) == DigitsVal(NumDigits(p), NumBase(p))

RECURSIVE Pow256(_)
Pow256(n) == IF n = 0 THEN 1 ELSE 256 * Pow256(n - 1)

\* socket.inet_aton on decimal parts: one to four parts, the last one filling
\* the bytes that remain; <<>> when the C library rejects the text
inet_aton(host) ==
    LET parts == SplitDot(host)
        n == Len(parts)
    IN  IF n > 4 \/ \E k \in 1..n : ~IsDec(parts[k]) THEN <<>>
        ELSE IF \E k \in 1..(n - 1) : DecVal(parts[k]) > 255 THEN <<>>
        ELSE IF n > 1 /\ DecVal(parts[n]) >= Pow256(5 - n) THEN <<>>
        ELSE [k \in 1..4 |->
                IF k < n THEN DecVal(parts[k])
                ELSE (DecVal(parts[n]) \div Pow256(4 - k)) % 256]

\* IPv4Address(packed).compressed
compressed(octets) ==
    ToString(octets[1]) \o "." \o ToString(octets[2]) \o "."
        \o ToString(octets[3]) \o "." \o ToString(octets[4])

\* assemblyline's is_valid_ip on a dotted quad
is_valid_ip(ip) ==
    LET parts == SplitDot(ip)
    IN  /\ Len(parts) = 4
        /\ \A k \in 1..4 :
            /\ Len(parts[k]) > 0
            /\ AllIn(parts[k], DigitChars)
            /\ DigitsVal(parts[k], 10) <= 255

\* The reserved networks the installed assemblyline library may list, each as
\* the dotted prefix its addresses share.  The library is not part of this
\* repository: loopback is listed by every version, the documentation range
\* 192.0.2.0/24 by some.
ReservedTables == { {"0.", "127."}, {"0.", "127.", "192.0.2."} }

\* assemblyline's is_ip_reserved under the library's table
is_ip_reserved(ip, lib) == \E prefix \in lib : StartsWith(ip, prefix)

NoUri == [url |-> "", kind |-> "", host |-> ""]

\* the tail of parse_uri that forgets the reserved-address test
ParseUriIgnoringReserved(check_uri, lib) ==
    LET url == urlsplit(FirstToken(check_uri))
        host == hostname(url)
        url_text == IF Find(url.path, ":") > 0
                    THEN url.scheme \o "://" \o url.netloc \o Before(url.path, ":")
                    ELSE geturl(url)
    IN  IF FirstToken(check_uri) = "" \/ url.error THEN NoUri
        ELSE IF url.scheme = "" \/ host = ""
                \/ ~InChars(CharAt(host, 1), LowerChars \o DigitChars \o ".-")
        THEN NoUri
        ELSE IF is_valid_domain(host)
        THEN [url |-> url_text, kind |-> "network.static.domain", host |-> host]
        ELSE IF inet_aton(host) # <<>> /\ is_valid_ip(compressed(inet_aton(host)))
        THEN [url |-> url_text, kind |-> "network.static.ip",
              host |-> compressed(inet_aton(host))]
        ELSE [url |-> url_text, kind |-> "", host |-> ""]

\* Oletools.parse_uri
parse_uri(check_uri, lib) ==
    LET url == urlsplit(FirstToken(check_uri))
        host == hostname(url)
        url_text == IF Find(url.path, ":") > 0
                    THEN url.scheme \o "://" \o url.netloc \o Before(url.path, ":")
                    ELSE geturl(url)
    IN  IF FirstToken(check_uri) = "" \/ url.error THEN NoUri
        ELSE IF url.scheme = "" \/ host = ""
                \/ ~InChars(CharAt(host, 1), LowerChars \o DigitChars \o ".-")
        THEN NoUri
        ELSE IF is_valid_domain(host)
        THEN [url |-> url_text, kind |-> "network.static.domain", host |-> host]
        ELSE IF /\ inet_aton(host) # <<>>
                /\ is_valid_ip(compressed(inet_aton(host)))
                /\ ~is_ip_reserved(compressed(inet_aton(host)), lib)
        THEN [url |-> url_text, kind |-> "network.static.ip",
              host |-> compressed(inet_aton(host))]
        ELSE [url |-> url_text, kind |-> "", host |-> ""]

\* the possible URI strings the callers hand to parse_uri
UriTokens ==
    { "http://example.com/a/b", "http://192.0.2.1/x", "http://127.0.0.1/x",
      "HTTP://Example.COM/a?", "http://user@example.com:8080/p",
      "http://example.com/a:b/c", "http://127.1/x", "http://8.8.8.8/ q",
      "http://localhost/x", "http://example.zz9/x", "mailto:a@example.com",
      "example.com/a", "http://_h.example.com/", "", "  ", "http://[::1/x",
      "http://999.1.1.1/x", "http://8.8.8.8:53/x#f", "http://[::1]/x",
      "http://-a.local?q=1", "http://192.0.2.300/x", "  http://example.org",
      "http://0x7f.1/x", "http://010.8.8.8/x" }

\* A caller runs parse_uri on a possible URI.
ParseUri ==
    /\ pc = "reset"
    /\ \E check_uri \in UriTokens, lib \in ReservedTables :
        call' = [op |-> "parse_uri", check_uri |-> check_uri, lib |-> lib,
                 ret |-> parse_uri(check_uri, lib)]
    /\ pc' = "stages"
    /\ UNCHANGED <<deep_scan, request_extracted, result_lines>>
    /\ UNCHANGED <<sinkVars, safeVars, macroVars>>


\* --------------------------------------------------------- link processor
\* the first position at which p occurs in s, 0 when it does not
FindStr(s, p) ==
    IF \E i \in 1..(Len(s) - Len(p) + 1) : SubSeq(s, i, i + Len(p) - 1) = p
    THEN CHOOSE i \in 1..(Len(s) - Len(p) + 1) :
            /\ SubSeq(s, i, i + Len(p) - 1) = p
            /\ \A j \in 1..(i - 1) : SubSeq(s, j, j + Len(p) - 1) # p
    ELSE 0

\* the last position at which p occurs in s, 0 when it does not
RFindStr(s, p) ==
    IF \E i \in 1..(Len(s) - Len(p) + 1) : SubSeq(s, i, i + Len(p) - 1) = p
    THEN CHOOSE i \in 1..(Len(s) - Len(p) + 1) :
            /\ SubSeq(s, i, i + Len(p) - 1) = p
            /\ \A j \in (i + 1)..(Len(s) - Len(p) + 1) : SubSeq(s, j, j + Len(p) - 1) # p
    ELSE 0

RECURSIVE RStrip(_)
RStrip(s) ==
    IF Len(s) > 0 /\ InChars(CharAt(s, Len(s)), Whitespace)
    THEN RStrip(Take(s, Len(s) - 1)) ELSE s

\* str.strip()
Strip(s) == RStrip(LStrip(s))

\* the printable ASCII characters from code 32 on; the grave accent (code 96)
\* occurs in no link of the model and a tab holds its place
AsciiPrintable ==
    " !\"#$%&'()*+,-./0123456789:;<=>?@ABCDEFGHIJKLMNOPQRSTUVWXYZ[\\]^_\tabcdefghijklmnopqrstuvwxyz{|}~"

AsciiBase == 32

IsHexPair(h) == Len(h) = 2 /\ AllIn(Lower(h), HexChars)

\* whether s starts with a percent escape of a printable ASCII character
EscapeAt(s) ==
    /\ Len(s) >= 3
    /\ CharAt(s, 1) = "%"
    /\ IsHexPair(SubSeq(s, 2, 3))
    /\ DigitsVal(Lower(SubSeq(s, 2, 3)), 16) - AsciiBase \in 0..(Len(AsciiPrintable) - 1)

RECURSIVE unquote(_)
\* urllib.parse.unquote on ASCII text: %XX becomes the character of that code
unquote(s) ==
    IF Len(s) = 0 THEN ""
    ELSE IF EscapeAt(s)
    THEN CharAt(AsciiPrintable, DigitsVal(Lower(SubSeq(s, 2, 3)), 16) - AsciiBase + 1)
            \o unquote(Drop(s, 3))
    ELSE CharAt(s, 1) \o unquote(Drop(s, 1))

UpperHexChars == "0123456789ABCDEF"

\* the characters urllib.parse.quote leaves as they are, "/" included
QuoteSafe == LowerChars \o UpperChars \o DigitChars \o "_.-~/"

CodeOf(c) == AsciiBase - 1 + (CHOOSE i \in 1..Len(AsciiPrintable) : CharAt(AsciiPrintable, i) = c)

RECURSIVE quote(_)
\* urllib.parse.quote_from_bytes on printable ASCII
quote(s) ==
    IF Len(s) = 0 THEN ""
    ELSE (IF InChars(CharAt(s, 1), QuoteSafe) THEN CharAt(s, 1)
          ELSE "%" \o CharAt(UpperHexChars, (CodeOf(CharAt(s, 1)) \div 16) + 1)
                   \o CharAt(UpperHexChars, (CodeOf(CharAt(s, 1)) % 16) + 1))
         \o quote(Drop(s, 1))

RECURSIVE Replace(_, _, _)
\* str.replace for one-character old
Replace(s, old, new) ==
    IF Len(s) = 0 THEN ""
    ELSE (IF CharAt(s, 1) = old THEN new ELSE CharAt(s, 1)) \o Replace(Drop(s, 1), old, new)

\* the error a raising call ends with
Raised == "<raised>"

\* PureWindowsPath(p).as_uri() for a path that starts with two backslashes:
\* \\host\share\rest is absolute and becomes file://host/share/rest, anything
\* shorter is a relative path and raises ValueError
WindowsPathAsUri(p) ==
    LET unc == Drop(p, 2)
        host == Before(unc, "\\")
        tail == After(unc, "\\")
        share == Before(tail, "\\")
        rest == After(tail, "\\")
    IN  IF host = "" \/ share = "" THEN Raised
        ELSE "file:" \o quote("//" \o host \o "/" \o share \o "/" \o Replace(rest, "\\", "/"))

\* the text in brackets reads as an IPv6 address
BracketedHostOk(host) == Find(host, ":") > 0 /\ AllIn(Lower(host), HexChars \o ":")

\* whether parse_uri raises: urlsplit rejects a bracketed host that is no
\* IPv6 address with a ValueError other than "Invalid IPv6 URL", which line
\* 2299 raises again
parse_uri_raises(check_uri) ==
    LET url == urlsplit(FirstToken(check_uri))
    IN  /\ FirstToken(check_uri) # ""
        /\ ~url.error
        /\ Find(url.netloc, "[") > 0
        /\ ~BracketedHostOk(Before(After(url.netloc, "["), "]"))

EXECUTABLE_EXTENSIONS ==
    { ".bat", ".class", ".cmd", ".com", ".cpl", ".dll", ".exe", ".gadget", ".hta",
      ".inf", ".jar", ".js", ".jse", ".lnk", ".msc", ".msi", ".msp", ".pif", ".ps1",
      ".ps1xml", ".ps2", ".ps2xml", ".psc1", ".psc2", ".reg", ".scf", ".scr", ".sct",
      ".vb", ".vbe", ".vbs", ".ws", ".wsc", ".wsf", ".wsh" }

SyncAppvMarker == "SyncAppvPublishingServer.vbs"

\* s.rsplit(p)[-1]
AfterLast(s, p) == IF RFindStr(s, p) = 0 THEN s ELSE Drop(s, RFindStr(s, p) + Len(p) - 1)

\* s.rsplit(c, 1)[0]
BeforeLast(s, c) == IF RFind(s, c) = 0 THEN s ELSE Take(s, RFind(s, c) - 1)

\* os.path.basename
Basename(path) == Drop(path, RFind(path, "/"))

NoTags == [t \in {} |-> <<>>]

NoScores == [sig \in {} |-> 0]

\* the mshta branch of _process_link, lines 2331-2345
MshtaUnwrap(unescaped) ==
    LET ws == FindAny(unescaped, Whitespace)
        rest == LStrip(Drop(unescaped, ws))
        command == IF StartsWith(rest, "\"")
                   THEN (IF EndsWith(rest, "\"") THEN SubSeq(rest, 2, Len(rest) - 1)
                         ELSE Drop(rest, 1))
                   ELSE rest
    IN  [raised |-> ws = 0,
         command |-> command,
         is_script |-> StartsWith(command, "javascript:") \/ StartsWith(command, "vbscript:"),
         script_type |-> Before(command, ":"),
         script |-> After(command, ":")]

\* the candidates the mshta branch offers to _extract_file
MshtaOffers(unescaped) ==
    LET m == MshtaUnwrap(unescaped)
    IN  IF StartsWith(unescaped, "mshta") /\ ~m.raised /\ m.is_script
        THEN << [data |-> m.script, file_name |-> ".mshta_" \o m.script_type,
                 description |-> m.script_type
                     \o " executed by mshta.exe in external relationship"] >>
        ELSE << >>

\* the link after the mshta branch, were the command to replace it always
LinkAfterMshtaAlwaysCommand(safe_link, unescaped) ==
    IF StartsWith(unescaped, "mshta") /\ ~MshtaUnwrap(unescaped).raised
    THEN MshtaUnwrap(unescaped).command
    ELSE safe_link

\* safe_link after the mshta branch: the command replaces it only when the
\* command is no script payload (the else of line 2344)
LinkAfterMshta(safe_link, unescaped) ==
    IF /\ StartsWith(unescaped, "mshta")
       /\ ~MshtaUnwrap(unescaped).raised
       /\ ~MshtaUnwrap(unescaped).is_script
    THEN MshtaUnwrap(unescaped).command
    ELSE safe_link

\* safe_link after the mhtml branch, lines 2354-2360
LinkAfterMhtml(safe_link) ==
    IF StartsWith(safe_link, "mhtml:")
    THEN BeforeLast(AfterLast(Drop(safe_link, 6), "!x-usc:"), "!")
    ELSE safe_link

UncPrefix == "file:///\\\\"

UncSkip == 8

\* safe_link after the UNC branch, lines 2361-2365; Raised when as_uri raises
LinkAfterUnc(safe_link) ==
    IF StartsWith(safe_link, UncPrefix)
    THEN WindowsPathAsUri(unquote(FirstToken(Drop(safe_link, UncSkip))))
    ELSE safe_link

\* whether lines 2370-2374 zero the scores for a parsed link
LinkSuppressed(S, link_type, r) ==
    \/ SafelistedUnder(S, "network.static.uri", r.url)
    \/ SafelistedUnder(S, r.kind, r.host)
    \/ (link_type = "oleobject" /\ Contains(r.host, ".sharepoint."))

\* heuristic.score_map were line 2374 to zero the link type alone
LinkScoreMapLinkTypeOnly(S, link_type, r) ==
    IF LinkSuppressed(S, link_type, r)
    THEN [sig \in {link_type} |-> 0]
    ELSE NoScores

\* heuristic.score_map after lines 2370-2374
LinkScoreMap(S, link_type, r) ==
    IF LinkSuppressed(S, link_type, r)
    THEN [sig \in {link_type, "unc_path", "external_link_ip"} |-> 0]
    ELSE NoScores

\* whether lines 2386-2394 report the link as one to an executable
LinkToExecutable(S, r) ==
    LET filename == Basename(urlsplit(r.url).path)
        path_extension == Lower(SplitExt(filename))
    IN  /\ path_extension # ".com"
        /\ path_extension \in EXECUTABLE_EXTENSIONS
        /\ ~SafelistedUnder(S, "file.name.extracted", filename)

LinkMsdt(link_type, r) == EndsWith(r.url, "!") /\ link_type = "oleobject"

\* the tags of a parsed link without the hostname entry
LinkTagsWithoutHost(S, link_type, r) ==
    [t \in {"network.static.uri"}
            \cup (IF LinkMsdt(link_type, r) THEN {"attribution.exploit"} ELSE {})
            \cup (IF LinkToExecutable(S, r) THEN {"file.name.extracted"} ELSE {}) |->
        CASE t = "network.static.uri" ->
                IF LinkMsdt(link_type, r)
                THEN << r.url, Take(r.url, Len(r.url) - 1) >> ELSE << r.url >>
          [] t = "attribution.exploit" -> << "CVE-2022-30190" >>
          [] OTHER -> << Basename(urlsplit(r.url).path) >>]

\* the tags of a parsed link, lines 2369-2394
LinkTags(S, link_type, r) ==
    [t \in {"network.static.uri", r.kind}
            \cup (IF LinkMsdt(link_type, r) THEN {"attribution.exploit"} ELSE {})
            \cup (IF LinkToExecutable(S, r) THEN {"file.name.extracted"} ELSE {}) |->
        CASE t = "network.static.uri" ->
                IF LinkMsdt(link_type, r)
                THEN << r.url, Take(r.url, Len(r.url) - 1) >> ELSE << r.url >>
          [] t = r.kind -> << r.host >>
          [] t = "attribution.exploit" -> << "CVE-2022-30190" >>
          [] OTHER -> << Basename(urlsplit(r.url).path) >>]

\* the signatures lines 2371-2393 add for a parsed link
LinkSignatures(S, link_type, r) ==
    {link_type}
        \cup (IF LinkMsdt(link_type, r) THEN {"msdt_exploit"} ELSE {})
        \cup (IF Contains(r.url, "../") THEN {"relative_path"} ELSE {})
        \cup (IF r.kind = "network.static.ip" /\ link_type # "hyperlink"
              THEN {"external_link_ip"} ELSE {})
        \cup (IF LinkToExecutable(S, r) THEN {"link_to_executable"} ELSE {})

\* what _process_link returns without tags: whether it raised, the heuristic
\* as far as it was built, the candidates offered, the text handed to parse_uri
LinkQuit(raised, sigs, attack, offers, parsed) ==
    [raised |-> raised, signatures |-> sigs, attack_ids |-> attack,
     score_map |-> NoScores, tags |-> NoTags, offers |-> offers, parsed |-> parsed]

\* lines 2366-2395: the link parsed as r from the text safe_link
LinkParsed(S, link_type, early, attack, offers, safe_link, r) ==
    IF r.host = ""
    THEN LinkQuit(FALSE, early, attack, offers, safe_link)
    ELSE [raised |-> FALSE,
          signatures |-> early \cup LinkSignatures(S, link_type, r),
          attack_ids |-> attack
                \cup (IF link_type = "attachedtemplate" THEN {"T1221"} ELSE {}),
          score_map |-> LinkScoreMap(S, link_type, r),
          tags |-> LinkTags(S, link_type, r),
          offers |-> offers,
          parsed |-> safe_link]

\* the one element of a singleton set
Only(set) == CHOOSE x \in set : TRUE

\* line 2366: parse_uri on the rewritten link, which may raise
LinkParse(S, lib, link_type, early, attack, offers, safe_link) ==
    IF safe_link = Raised \/ parse_uri_raises(safe_link)
    THEN LinkQuit(TRUE, {}, {}, offers, safe_link)
    ELSE Only({ LinkParsed(S, link_type, early, attack, offers, safe_link, r) :
                    r \in {parse_uri(safe_link, lib)} })

\* lines 2361-2365: the UNC branch on the link the mhtml branch left
LinkUnc(S, lib, link_type, early, attack, offers, after_mhtml) ==
    Only({ LinkParse(S, lib, link_type, sigs, attack, offers, safe_link) :
            sigs \in {early \cup (IF StartsWith(after_mhtml, UncPrefix)
                                  THEN {"unc_path"} ELSE {})},
            safe_link \in {LinkAfterUnc(after_mhtml)} })

\* lines 2354-2360: the mhtml branch on the link the mshta branch left
LinkMhtml(S, lib, link_type, early, attack, offers, after_mshta) ==
    Only({ LinkUnc(S, lib, link_type, sigs, attack, offers, after_mhtml) :
            sigs \in {early \cup (IF StartsWith(after_mshta, "mhtml:")
                                  THEN {"mhtml_link"} ELSE {})},
            after_mhtml \in {LinkAfterMhtml(after_mshta)} })

\* lines 2346-2353: the SyncAppvPublishingServer.vbs branch
LinkSync(link_type, early, attack, offers, unescaped) ==
    LinkQuit(FALSE, early \cup {"embedded_powershell", link_type},
             attack \cup {"T1216"},
             Append(offers,
                    [data |-> Drop(unescaped, FindStr(unescaped, SyncAppvMarker)
                                                + Len(SyncAppvMarker) - 1),
                     file_name |-> ".ps1",
                     description |-> "powershell hidden in hyperlink external relationship"]),
             None)

\* lines 2328-2395 on the lower-cased link type, safe_str(link) and the
\* percent-decoded, stripped link
LinkUnwrap(S, lib, link_type, safe_link, unescaped, mshta) ==
    IF mshta /\ FindAny(unescaped, Whitespace) = 0
    THEN LinkQuit(TRUE, {}, {}, << >>, None)
    ELSE IF Contains(unescaped, SyncAppvMarker)
    THEN Only({ LinkSync(link_type, IF mshta THEN {"mshta"} ELSE {},
                         IF mshta THEN {"T1218.005"} ELSE {}, offers, unescaped) :
                    offers \in {MshtaOffers(unescaped)} })
    ELSE Only({ LinkMhtml(S, lib, link_type, IF mshta THEN {"mshta"} ELSE {},
                          IF mshta THEN {"T1218.005"} ELSE {}, offers, after_mshta) :
                    offers \in {MshtaOffers(unescaped)},
                    after_mshta \in {LinkAfterMshta(safe_link, unescaped)} })

\* _process_link(link_type, link) reading safelist state S and the library
\* table lib: whether it raises, the heuristic it builds, the tags, the
\* candidates it offers to _extract_file and the text it hands to parse_uri
process_link(S, lib, type_in, link) ==
    Only({ LinkUnwrap(S, lib, link_type, safe_link, unescaped,
                      StartsWith(unescaped, "mshta")) :
            link_type \in {Lower(type_in)},
            safe_link \in {safe_str(link)},
            unescaped \in {Strip(unquote(safe_str(link)))} })

RECURSIVE SinkAfter(_, _, _)
\* the registry and the working directory after _extract_file has taken the
\* offers in turn, none of them failing
SinkAfter(files, wd, offers) ==
    IF offers = << >> THEN [files |-> files, wd |-> wd]
    ELSE LET o == Head(offers)
             name == ArtifactName(o.data, o.file_name)
         IN  SinkAfter(IF Identify(o.data) = "unknown" THEN files
                       ELSE DictSet(files, name, o.description),
                       FileWrite(wd, name, o.data),
                       Tail(offers))

\* the relationship types of the external links, as the XML spells them
LinkTypes == {"hyperlink", "oleObject", "attachedTemplate"}

\* the link texts the callers hand to _process_link
Links ==
    { "http://example.com/a/b", "http://8.8.8.8/x.exe", "mshta", "mshta.exe",
      "mshta http://evil.com/x.hta", "mshta \"javascript:alert(1)\"",
      "mshta javascript://evil.com/x", "mshta \"http://example.com/q",
      "http://a.com/SyncAppvPublishingServer.vbs ;calc",
      "mhtml:http://example.com/a.doc!x-usc:http://evil.com/p.exe!",
      "file:///\\\\8.8.8.8\\share\\a.exe", "file:///\\\\host",
      "http://example.org/a", "http://contoso.sharepoint.com/x",
      "http://evil.com/a!", "http://evil.com/../a.exe", "", "  ",
      "http://127.0.0.1/x", "http://evil.com/example.org.exe",
      "http://[abc]/x", "%20http://example.com/%41", "http://192.0.2.1/a.com" }

\* A caller runs _process_link on an external link.
ProcessLink ==
    /\ pc = "reset"
    /\ pc' = "stages"
    /\ \E link_type \in LinkTypes, link \in Links, lib \in ReservedTables :
        \E ret \in {process_link(CurrentSafelist, lib, link_type, link)} :
        \E sink \in {SinkAfter(extracted_files, working_directory, ret.offers)} :
            /\ call' = [op |-> "_process_link", link_type |-> link_type,
                        link |-> link, lib |-> lib, ret |-> ret]
            /\ extracted_files' = sink.files
            /\ working_directory' = sink.wd
            /\ offered' = offered
                    \cup {<< ret.offers[i].data, ret.offers[i].file_name >> :
                            i \in 1..Len(ret.offers)}
    /\ UNCHANGED << deep_scan, request_extracted, result_lines, safeVars, macroVars >>

\* ------------------------------------------------ external link verdicts
MaliciousScore == 1000
SuspiciousScore == 500

get_verdict(score) ==
    IF score >= MaliciousScore THEN "Malicious"
    ELSE IF score >= SuspiciousScore THEN "Suspicious"
    ELSE "Informative"

\* the processed links in the order found
Unsorted(processed) == processed

RECURSIVE InsertByScore(_, _)
\* x placed behind every element whose score is not lower
InsertByScore(s, x) ==
    IF s = << >> THEN << x >>
    ELSE IF Head(s).score >= x.score
    THEN << Head(s) >> \o InsertByScore(Tail(s), x)
    ELSE << x >> \o s

RECURSIVE SortedByScore(_)
\* sorted(processed, key=score, reverse=True): descending, and stable
SortedByScore(processed) ==
    IF processed = << >> THEN << >>
    ELSE InsertByScore(SortedByScore(SubSeq(processed, 1, Len(processed) - 1)),
                       processed[Len(processed)])

RECURSIVE groupby(_)
\* itertools.groupby with key get_verdict: one group per run of equal keys
groupby(processed) ==
    IF processed = << >> THEN << >>
    ELSE LET x == Head(processed)
             rest == groupby(Tail(processed))
         IN  IF rest # << >> /\ rest[1].verdict = get_verdict(x.score)
             THEN << [verdict |-> rest[1].verdict,
                      processed_links |-> << x >> \o rest[1].processed_links] >>
                    \o Tail(rest)
             ELSE << [verdict |-> get_verdict(x.score), processed_links |-> << x >>] >>
                    \o rest

\* max(heuristics, key=score): the first of the members with the highest score
MaxByScore(members) ==
    members[CHOOSE i \in 1..Len(members) :
                /\ \A j \in 1..Len(members) : members[j].score <= members[i].score
                /\ \A j \in 1..(i - 1) : members[j].score < members[i].score]

LinkSection(group) ==
    [title |-> group.verdict \o " External Relationship Targets",
     grouped_links |-> [i \in 1..Len(group.processed_links) |-> group.processed_links[i].link],
     heuristic |-> MaxByScore(group.processed_links)]

\* the sections added for the external links, in order
LinkSections(processed) ==
    LET groups == groupby(SortedByScore(processed))
    IN  [k \in 1..Len(groups) |-> LinkSection(groups[k])]

\* bound: the external links of one document
MaxLinks == 3
LinkScores == { 0, 10, 499, 500, 999, 1000, 1500 }

\* the links of a document with the scores of their heuristics, in the order found
ProcessedLinks ==
    UNION { { [i \in 1..n |-> [link |-> i, score |-> f[i]]] : f \in [1..n -> LinkScores] }
            : n \in 1..MaxLinks }

\* _check_xml_strings reports the external links it found.
GroupLinks ==
    /\ pc = "reset"
    /\ pc' = "stages"
    /\ \E processed \in ProcessedLinks :
        call' = [op |-> "external_links", processed |-> processed,
                 sections |-> LinkSections(processed)]
    /\ UNCHANGED << deep_scan, request_extracted, result_lines, sinkVars, safeVars, macroVars >>

\* ------------------------------------------------ the VBA deobfuscator
\* A text is the sequence of the code points of its characters.
Codes(s) == [i \in 1..Len(s) |-> CodeOf(CharAt(s, i))]

CodeUpperA == 65
CodeUpperZ == 90
CodeDigit0 == 48
CodeDigit9 == 57
CodeQuote == 34

\* re.IGNORECASE on one code point of a pattern of ASCII letters
FoldCode(c) == IF c \in CodeUpperA..CodeUpperZ THEN c + AsciiBase ELSE c

\* whether the literal lit, given in lower case, stands in t at position p
LitAt(t, p, lit) ==
    /\ p + Len(lit) - 1 <= Len(t)
    /\ \A i \in 1..Len(lit) : FoldCode(t[p + i - 1]) = FoldCode(lit[i])

\* (\d+): the number of digits that stand in t from position p on
DigitRun(t, p) ==
    CHOOSE n \in 0..(Len(t) - p + 1) :
        /\ \A i \in p..(p + n - 1) : t[i] \in CodeDigit0..CodeDigit9
        /\ (p + n <= Len(t)) => t[p + n] \notin CodeDigit0..CodeDigit9

RECURSIVE int(_)
\* int() of a text of decimal digits
int(ds) ==
    IF ds = << >> THEN 0
    ELSE 10 * int(SubSeq(ds, 1, Len(ds) - 1)) + (ds[Len(ds)] - CodeDigit0)

NoMatch == [len |-> 0]

\* the literal parts of the patterns
DollarLit == Codes("$")
OpenLit == Codes("(")
CloseLit == Codes(")")
ConcatLit == Codes("\" & \"")

\* One match attempt of chr[$]?\((\d+)<sign>(\d+)\) at position p, the name
\* being chr or chrw and the sign " + ", " - " or nothing (then with a single
\* number): the length matched and the groups, or NoMatch.
MatchChrAt(t, p, name, sign) ==
    IF ~LitAt(t, p, name) THEN NoMatch
    ELSE LET q == p + Len(name) + (IF LitAt(t, p + Len(name), DollarLit) THEN 1 ELSE 0)
             n1 == DigitRun(t, q + 1)
             r == q + 1 + n1
             n2 == IF sign = << >> THEN 0 ELSE DigitRun(t, r + Len(sign))
             e == r + (IF sign = << >> THEN 0 ELSE Len(sign) + n2)
         IN  IF /\ LitAt(t, q, OpenLit)
                /\ n1 > 0
                /\ LitAt(t, r, sign)
                /\ sign # << >> => n2 > 0
                /\ LitAt(t, e, CloseLit)
             THEN [len |-> e - p + 1,
                   group0 |-> SubSeq(t, p, e),
                   group1 |-> SubSeq(t, q + 1, r - 1),
                   group2 |-> SubSeq(t, r + Len(sign), e - 1)]
             ELSE NoMatch

CHR_ADD_RE == [name |-> Codes("chr"), sign |-> Codes(" + ")]
CHRW_ADD_RE == [name |-> Codes("chrw"), sign |-> Codes(" + ")]
CHR_SUB_RE == [name |-> Codes("chr"), sign |-> Codes(" - ")]
CHRW_SUB_RE == [name |-> Codes("chrw"), sign |-> Codes(" - ")]
CHR_RE == [name |-> Codes("chr"), sign |-> Codes("")]
CHRW_RE == [name |-> Codes("chrw"), sign |-> Codes("")]

NarrowMax == 255
WideMax == 1114111

\* f'"{chr(i)}"'
QuotedChr(i) == << CodeQuote, i, CodeQuote >>

deobf_chrs_add(m) ==
    LET i == int(m.group1) + int(m.group2)
    IN  IF i >= 0 /\ i <= NarrowMax THEN QuotedChr(i) ELSE << >>

\* the wide sum that is out of range dropped as the narrow one is
deobf_unichrs_add_dropping(m) ==
    LET i == int(m.group1) + int(m.group2)
    IN  IF i >= 0 /\ i <= WideMax THEN QuotedChr(i) ELSE << >>

deobf_unichrs_add(m) ==
    LET i == int(m.group1) + int(m.group2)
    IN  IF i >= 0 /\ i <= WideMax THEN QuotedChr(i) ELSE m.group0

deobf_chrs_sub(m) ==
    LET i == int(m.group1) - int(m.group2)
    IN  IF i >= 0 /\ i <= NarrowMax THEN QuotedChr(i) ELSE << >>

deobf_unichrs_sub(m) ==
    LET i == int(m.group1) - int(m.group2)
    IN  IF i >= 0 /\ i <= WideMax THEN QuotedChr(i) ELSE << >>

deobf_chr(m) ==
    LET i == int(m.group1)
    IN  IF i >= 0 /\ i <= NarrowMax THEN QuotedChr(i) ELSE << >>

deobf_unichr(m) ==
    LET i == int(m.group1)
    IN  IF i >= 0 /\ i <= WideMax THEN QuotedChr(i) ELSE << >>

\* the replacement function that goes with each pattern
DeobfRepl(re, m) ==
    CASE re = CHR_ADD_RE -> deobf_chrs_add(m)
      [] re = CHRW_ADD_RE -> deobf_unichrs_add(m)
      [] re = CHR_SUB_RE -> deobf_chrs_sub(m)
      [] re = CHRW_SUB_RE -> deobf_unichrs_sub(m)
      [] re = CHR_RE -> deobf_chr(m)
      [] re = CHRW_RE -> deobf_unichr(m)

RECURSIVE ReSubFrom(_, _, _)
\* re.sub(re, repl, t, flags=re.IGNORECASE) from position p on: the matches
\* are taken from left to right and do not overlap
ReSubFrom(re, t, p) ==
    IF p > Len(t) THEN << >>
    ELSE LET m == MatchChrAt(t, p, re.name, re.sign)
         IN  IF m.len > 0
             THEN DeobfRepl(re, m) \o ReSubFrom(re, t, p + m.len)
             ELSE << t[p] >> \o ReSubFrom(re, t, p + 1)

\* re.sub with count=1: the first match alone is replaced
ReSubOnce(re, t) ==
    LET starts == { p \in 1..Len(t) : MatchChrAt(t, p, re.name, re.sign).len > 0 }
    IN  IF starts = {} THEN t
        ELSE LET p == CHOOSE q \in starts : \A r \in starts : q <= r
                 m == MatchChrAt(t, p, re.name, re.sign)
             IN  SubSeq(t, 1, p - 1) \o DeobfRepl(re, m) \o SubSeq(t, p + m.len, Len(t))

ReSub(re, t) == ReSubFrom(re, t, 1)

\* the concatenations left as they are
KeepConcat(t) == t

RECURSIVE CollapseConcat(_)
\* re.sub('" & "', "", t)
CollapseConcat(t) ==
    IF t = << >> THEN << >>
    ELSE IF LitAt(t, 1, ConcatLit)
    THEN CollapseConcat(SubSeq(t, Len(ConcatLit) + 1, Len(t)))
    ELSE << t[1] >> \o CollapseConcat(Tail(t))

\* the text after the six character-code rules
DeobfChars(text) ==
    ReSub(CHRW_RE, ReSub(CHR_RE, ReSub(CHRW_SUB_RE, ReSub(CHR_SUB_RE,
        ReSub(CHRW_ADD_RE, ReSub(CHR_ADD_RE, text))))))

deobfuscator(text) == CollapseConcat(DeobfChars(text))

ChrNames == { "chr", "Chr$", "chrw", "CHRW$", "char" }
ChrNumbers == { "0", "1", "65", "104", "255", "256", "300", "1114111", "1114112" }
ChrSigns == { "", " + ", " - ", "+" }
ChrBefore == { "", "x = " }
ChrAfter == { "", ", " }

\* a text with one character-code call, or the same call twice
ChrText(c) ==
    LET unit == c.name \o "(" \o c.x \o (IF c.sign = "" THEN "" ELSE c.sign \o c.y) \o ")"
    IN  c.before \o unit \o c.after \o (IF c.after = "" THEN "" ELSE unit)

ChrCalls ==
    [name : ChrNames, x : ChrNumbers, sign : ChrSigns, y : { "1", "100", "1114112" },
     before : ChrBefore, after : ChrAfter]

\* the other macro texts: concatenations, literals that hold an ampersand,
\* a call written inside another
PlainTexts ==
    { "\"abc\" & \"def\"", "\"abc\" &\"def\"", "a = \"x\" & \"y\" & \"z\"", "", "x = 1",
      "\"a\" & b & \"c\"", "s = \" &\" & \" \"", "x = chr(34) & \" & \" & chr(34)",
      "chr(chr(300)65)" }

\* _create_macro_sections runs the deobfuscator on a macro.
Deobfuscate ==
    /\ pc = "reset"
    /\ pc' = "stages"
    /\ \/ \E c \in ChrCalls :
            \E text \in {Codes(ChrText(c))} :
                call' = [op |-> "_deobfuscator", chr |-> c, text |-> text,
                         ret |-> deobfuscator(text)]
       \/ \E plain \in PlainTexts :
            \E text \in {Codes(plain)} :
                call' = [op |-> "_deobfuscator", chr |-> [name |-> ""], text |-> text,
                         ret |-> deobfuscator(text)]
    /\ UNCHANGED << deep_scan, request_extracted, result_lines, sinkVars, safeVars, macroVars >>

\* ------------------------------------------------ the macro plausibility score
MACRO_SKIP_WORDS ==
    { "var", "unescape", "exec", "for", "while", "array", "object", "length", "len",
      "substr", "substring", "new", "unicode", "name", "base", "dim", "set", "public",
      "end", "getobject", "createobject", "content", "regexp", "date", "false", "true",
      "break", "continue", "ubound", "none", "undefined", "activexobject", "document",
      "attribute", "shell", "thisdocument", "rem", "string", "byte", "integer", "int",
      "function", "text", "next", "private", "click", "change", "createtextfile",
      "savetofile", "responsebody", "opentextfile", "resume", "open", "environment",
      "write", "close", "error", "else", "number", "chr", "sub", "loop" }

\* MACRO_WORDS_RE asks for this many letters at least
MacroWordMinLen == 3
MinMacroBytes == 128
MinMacroWords == 32

\* the characters that str.lower() turns into one of a-z
MacroLetters == { CharAt(LowerChars \o UpperChars, i) : i \in 1..Len(LowerChars \o UpperChars) }

IsLetterAt(s, p) == CharAt(s, p) \in MacroLetters

\* the number of letters that stand in s from position p on, s taken in lower case
LetterRun(s, p) ==
    CHOOSE n \in 0..(Len(s) - p + 1) :
        /\ \A i \in p..(p + n - 1) : IsLetterAt(s, i)
        /\ (p + n <= Len(s)) => ~IsLetterAt(s, p + n)

\* re.finditer(MACRO_WORDS_RE, macro_text.lower()): the matches are the runs of
\* letters that are long enough, each given here under the position it starts at
MacroWords(s) ==
    LET starts == { p \in 1..Len(s) :
                        /\ IsLetterAt(s, p)
                        /\ p = 1 \/ ~IsLetterAt(s, p - 1)
                        /\ LetterRun(s, p) >= MacroWordMinLen }
    IN  [p \in starts |-> Lower(SubSeq(s, p, p + LetterRun(s, p) - 1))]

\* every pair of letters counted as known
TriCountFull(chains, word) == Len(word) - 1

\* the inner loop: the two letters after each letter but the last two, looked
\* up under the letter before them
TriCount(chains, word) ==
    Cardinality({ i \in 1..(Len(word) - 2) :
        /\ CharAt(word, i) \in DOMAIN chains
        /\ SubSeq(word, i + 1, i + 2) \in chains[CharAt(word, i)] })

RECURSIVE Gcd(_, _)
Gcd(a, b) == IF b = 0 THEN a ELSE Gcd(b, a % b)

RECURSIVE Lcm(_)
Lcm(numbers) ==
    IF numbers = {} THEN 1
    ELSE LET k == CHOOSE n \in numbers : TRUE
             d == Lcm(numbers \ {k})
         IN  (d * k) \div Gcd(d, k)

\* a common denominator of the fractions tri_count / (len(word) - 2)
CommonDen(words) == Lcm({ Len(words[p]) - 2 : p \in DOMAIN words })

RECURSIVE SumIn(_, _, _)
\* the sum of the values f has in lo..hi
SumIn(f, lo, hi) ==
    IF lo > hi THEN 0
    ELSE IF lo = hi THEN (IF lo \in DOMAIN f THEN f[lo] ELSE 0)
    ELSE SumIn(f, lo, (lo + hi) \div 2) + SumIn(f, (lo + hi) \div 2 + 1, hi)

\* score += tri_count / (len(word) - 2) over the words that are not skipped,
\* as a multiple of 1/den
ScoreTimes(chains, words, den, last) ==
    SumIn([p \in DOMAIN words |->
              IF words[p] \in MACRO_SKIP_WORDS THEN 0
              ELSE TriCount(chains, words[p]) * (den \div (Len(words[p]) - 2))],
          1, last)

\* byte_count += len(word)
ByteCount(words, last) == SumIn([p \in DOMAIN words |-> Len(words[p])], 1, last)

\* word_count += 1
WordCount(words) == Cardinality(DOMAIN words)

\* macro_score_max_file_size left out of the configuration
NoMaxSize == 0 - 1

\* the loop over the words: the counts and the score, score_num / score_den
MacroStats(chains, macro_text) ==
    CHOOSE r \in
        { [word_count |-> WordCount(ws),
           byte_count |-> ByteCount(ws, Len(macro_text)),
           score_num |-> ScoreTimes(chains, ws, den, Len(macro_text)),
           score_den |-> den]
          : << ws, den >> \in { << w, CommonDen(w) >> : w \in { MacroWords(macro_text) } } } : TRUE

\* the verdict once the words are counted, the alert threshold being
\* min_alert.num / min_alert.den
FlagFrom(max_size, min_alert, size, stats) ==
    IF max_size # NoMaxSize /\ size > max_size THEN FALSE
    ELSE IF stats.byte_count < MinMacroBytes \/ stats.word_count < MinMacroWords THEN FALSE
    ELSE stats.score_num * min_alert.den < min_alert.num * stats.score_den * stats.word_count

flag_macro(chains, max_size, min_alert, macro_text) ==
    FlagFrom(max_size, min_alert, Len(macro_text), MacroStats(chains, macro_text))

RECURSIVE Repeated(_, _)
Repeated(s, n) ==
    IF n = 0 THEN ""
    ELSE IF n % 2 = 1 THEN s \o Repeated(s, n - 1)
    ELSE Repeated(s \o s, n \div 2)

MacroVocabulary == { "the", "Their", "xqz", "Dim", "ab", "heth" }
MacroSeparators == { " ", "_1" }
MacroRepeats == { 0, 1, 31, 32, 43 }
MacroMaxSizes == { NoMaxSize, 200 }
MacroAlerts == { [num |-> 3, den |-> 5], [num |-> 1, den |-> 1], [num |-> 0, den |-> 1],
                 [num |-> 1, den |-> 4] }

\* a macro text of two runs of words
MacroRecipes ==
    [w1 : MacroVocabulary, n1 : MacroRepeats, w2 : MacroVocabulary, n2 : { 0, 1, 32 },
     sep : MacroSeparators]

MacroText(c) == Repeated(c.w1 \o c.sep, c.n1) \o Repeated(c.w2 \o c.sep, c.n2)

\* _create_macro_sections scores a macro.
FlagMacro ==
    /\ pc = "reset"
    /\ pc' = "stages"
    /\ \E c \in MacroRecipes :
        \E macro_text \in { MacroText(c) } :
        \E stats \in { MacroStats(word_chains, macro_text) } :
        \E max_size \in MacroMaxSizes, min_alert \in MacroAlerts :
            call' = [op |-> "_flag_macro", recipe |-> c, macro_text |-> macro_text,
                     max_size |-> max_size, min_alert |-> min_alert, stats |-> stats,
                     ret |-> FlagFrom(max_size, min_alert, Len(macro_text), stats)]
    /\ UNCHANGED << deep_scan, request_extracted, result_lines, sinkVars, safeVars, macroVars >>

\* ------------------------------------------------ VBA stomping
RECURSIVE JoinLines(_)
\* "\n".join(lines)
JoinLines(lines) ==
    IF lines = << >> THEN ""
    ELSE IF Len(lines) = 1 THEN lines[1]
    ELSE lines[1] \o "\n" \o JoinLines(Tail(lines))

\* the keywords the scanner finds in a text, "" standing for none found
AutoExecKeywords == { "", "AutoOpen", "Document_Open" }
WriteKeywords == { "", "Open" }
ExecuteKeywords == { "", "Shell", "CreateObject" }

NonEmpty(m) == m # ""

\* mraptor.MacroRaptor(combined).scan(): one match for each kind of keyword
\* found, and suspicious when an auto-execution keyword goes with a write or
\* an execute keyword
ScanOf(autoexec, write, execute) ==
    [suspicious |-> autoexec # "" /\ (write # "" \/ execute # ""),
     matches |-> SelectSeq(<< autoexec, write, execute >>, NonEmpty)]

ScanResults ==
    { ScanOf(a, w, x) : a \in AutoExecKeywords, w \in WriteKeywords, x \in ExecuteKeywords }

\* the scan of a text in which nothing is found
NoScan == ScanOf("", "", "")

\* the scans a list of macros can get: nothing is found in no text
ScansFor(macro_list) == IF JoinLines(macro_list) = "" THEN { NoScan } ELSE ScanResults

\* the scans the XLM macros can get
XlmScansFor(macro_list) ==
    IF JoinLines(macro_list) = "" THEN { NoScan }
    ELSE { ScanOf("", "", x) : x \in ExecuteKeywords }

\* sha256 of the submitted file, never that of a macro dump
RequestHash == Sha256Hex("D1")

\* _mraptor_check up to the scan: the combined text is offered as a file
MraptorOffers(macro_list, filename, description) ==
    IF JoinLines(macro_list) # "" /\ Sha256Hex(JoinLines(macro_list)) # RequestHash
    THEN << [data |-> JoinLines(macro_list), file_name |-> "_" \o filename \o ".data",
             description |-> description] >>
    ELSE << >>

InSeq(x, seq) == \E i \in 1..Len(seq) : seq[i] = x

\* the p-code matches, those of the macro source included
StompDiffAll(pcode_matches, vba_matches) == pcode_matches

\* m for m in pcode_matches if m not in set(vba_matches)
StompDiff(pcode_matches, vba_matches) ==
    LET Missing(m) == ~InSeq(m, vba_matches)
    IN  SelectSeq(pcode_matches, Missing)

\* the structural flag alone
StompingFlagOnly(stomping, vba, pcode_scan) == stomping

\* line 1649
StompingDecision(stomping, vba, pcode_scan) ==
    stomping \/ (pcode_scan.matches # << >> /\ pcode_scan.suspicious /\ ~vba.suspicious)

NoSection == [reported |-> FALSE]

\* the VBA Stomping section, if there is one
StompSection(stomping, vba, pcode_scan) ==
    IF ~StompingDecision(stomping, vba, pcode_scan) THEN NoSection
    ELSE LET pcode_results == JoinLines(StompDiff(pcode_scan.matches, vba.matches))
         IN  IF pcode_results # ""
             THEN [reported |-> TRUE, title |-> "VBA Stomping",
                   lines |-> << "Suspicious VBA content different in pcode dump than in macro dump content." >>,
                   signatures |-> { "Suspicious VBA stomped" },
                   pcode_dump |-> StompDiff(pcode_scan.matches, vba.matches),
                   macro_dump |-> IF vba.matches = << >> THEN << "None." >> ELSE vba.matches]
             ELSE [reported |-> TRUE, title |-> "VBA Stomping", lines |-> << >>,
                   signatures |-> {}, pcode_dump |-> << >>, macro_dump |-> << >>]

\* ----------------------------------------------- macro network indicators
\* the length of the octet of IP_RE that stands at position p of s, the
\* alternatives taken in the order of the pattern: three digits up to 255,
\* then two digits without a leading zero, then one digit; wanted is the
\* set of lengths the octet may take
OctetLens(s, p) ==
    { n \in 1..3 :
        /\ p + n - 1 <= Len(s)
        /\ AllIn(SubSeq(s, p, p + n - 1), DigitChars)
        /\ n > 1 => CharAt(s, p) # "0"
        /\ n = 3 => DigitsVal(SubSeq(s, p, p + 2), 10) \in 100..255 }

\* the end of the part of IP_RE that is an octet and a dot, from p on; 0 when
\* there is none
OctetDotEnd(s, p) ==
    LET fits == { n \in OctetLens(s, p) : p + n <= Len(s) /\ CharAt(s, p + n) = "." }
    IN  IF p = 0 \/ fits = {} THEN 0 ELSE p + (CHOOSE n \in fits : TRUE) + 1

\* re.match(IP_RE, description).group(1), "" when there is no match
IpMatch(description) ==
    LET last == OctetDotEnd(description, OctetDotEnd(description, OctetDotEnd(description, 1)))
    IN  IF last = 0 \/ OctetLens(description, last) = {} THEN ""
        ELSE SubSeq(description, 1,
                    last - 1 + (CHOOSE n \in OctetLens(description, last) :
                                    \A k \in OctetLens(description, last) : k <= n))

\* an entry of vba_scanner.iocs
Ioc(keyword, description) == [keyword |-> keyword, description |-> description]

\* Heuristic(27, frequency=0) and the fresh network section of line 1604
FreshNetwork == [network |-> {}, frequency |-> 0, tags |-> {}]

\* _macro_scanner, lines 1860-1861 and 1868-1869: the frequency of the
\* heuristic is incremented for what is not safelisted
CountUnlessSafelisted(S, frequency, tag_type, tag, uri) ==
    IF uri # ""
    THEN IF ~SafelistedUnder(S, "network.static.uri", uri) /\ ~SafelistedUnder(S, tag_type, tag)
         THEN frequency + 1 ELSE frequency
    ELSE IF ~SafelistedUnder(S, tag_type, tag) THEN frequency + 1 ELSE frequency

\* _macro_scanner, lines 1850-1872: one entry of vba_scanner.iocs
NetworkStep(S, lib, acc, ioc) ==
    CHOOSE next \in
        { IF parsed.url # ""
          THEN [ network |-> acc.network \cup { ioc.keyword \o ": " \o parsed.url },
                 frequency |-> CountUnlessSafelisted(S, acc.frequency, parsed.kind,
                                                     parsed.host, parsed.url),
                 tags |-> acc.tags \cup { << "network.static.uri", parsed.url >> }
                              \cup (IF parsed.host # "" /\ parsed.kind # ""
                                    THEN { << parsed.kind, parsed.host >> } ELSE {}) ]
          ELSE IF ip_str # ""
          THEN IF is_ip_reserved(ip_str, lib) THEN acc
               ELSE [ network |-> acc.network,
                      frequency |-> CountUnlessSafelisted(S, acc.frequency,
                                                          "network.static.ip", ip_str, ""),
                      tags |-> acc.tags \cup { << "network.static.ip", ip_str >> } ]
          ELSE [ acc EXCEPT !.network = @ \cup { ioc.keyword \o ": "
                                                  \o safe_str(ioc.description) } ] :
            parsed \in { parse_uri(ioc.description, lib) },
            ip_str \in { safe_str(IpMatch(ioc.description)) } } : TRUE

RECURSIVE NetworkLoop(_, _, _, _)
\* the loop of line 1850 over vba_scanner.iocs
NetworkLoop(S, lib, acc, iocs) ==
    IF iocs = << >> THEN acc
    ELSE NetworkLoop(S, lib, NetworkStep(S, lib, acc, Head(iocs)), Tail(iocs))

RECURSIVE ScanMacros(_, _, _, _, _)
\* _create_macro_sections, lines 1605-1608: _macro_scanner run on every
\* macro; found is what VBA_Scanner reports for the text of a macro
ScanMacros(S, lib, acc, macro_list, found) ==
    IF macro_list = << >> THEN acc
    ELSE ScanMacros(S, lib, NetworkLoop(S, lib, acc, found.iocs), Tail(macro_list), found)

\* lines 1635-1639: the network section after the macros were scanned; the
\* heuristic is taken off when there are network lines and nothing was counted
NetworkSection(scanned) ==
    [ title |-> "Potential host or network IOCs",
      heuristic |-> ~(scanned.network # {} /\ scanned.frequency = 0),
      frequency |-> scanned.frequency,
      tags |-> scanned.tags,
      lines |-> scanned.network ]

\* macro_section.subsections when _create_macro_sections returns: the
\* sections made with parent=macro_section or handed to add_subsection, lines
\* 1619-1663
MacroSubsections(macro_list, found, has_xlm, stomp) ==
    (IF macro_list # << >> /\ found.autoexec THEN << "Autoexecution strings" >> ELSE << >>)
        \o (IF macro_list # << >> /\ found.suspicious
            THEN << "Suspicious strings or functions" >> ELSE << >>)
        \o (IF has_xlm THEN << "XLM Macros" >> ELSE << >>)
        \o (IF stomp.reported THEN << "VBA Stomping" >> ELSE << >>)

\* what VBA_Scanner reports for a macro text
Findings(autoexec, suspicious, iocs) ==
    [autoexec |-> autoexec, suspicious |-> suspicious, iocs |-> iocs]

\* what VBA_Scanner may report for the macro text of the model
ScannerFindings ==
    { Findings(FALSE, FALSE, << >>),
      Findings(TRUE, TRUE, << >>),
      Findings(TRUE, FALSE, << Ioc("URL", "http://evil.com/x.hta") >>),
      Findings(FALSE, FALSE, << Ioc("URL", "http://evil.com/x.hta") >>),
      Findings(FALSE, FALSE, << Ioc("URL", "http://example.org/a") >>),
      Findings(FALSE, FALSE, << Ioc("IPv4 address", "192.0.2.1") >>),
      Findings(FALSE, TRUE, << Ioc("Executable file name", "cmd.exe") >>) }

\* nothing is scanned when there are no macros
NoFindings == Findings(FALSE, FALSE, << >>)

FindingsFor(macro_list) == IF macro_list = << >> THEN { NoFindings } ELSE ScannerFindings

\* _create_macro_sections: the macros are scanned for keywords and network
\* indicators, the three dumps are offered as files and scanned, and the
\* stomping section is made.
CreateMacroSections ==
    /\ pc = "stages"
    /\ pc' = "sections"
    /\ \E sink \in { SinkAfter(extracted_files, working_directory,
                          MraptorOffers(macros, "all_vba", "vba_code")
                            \o MraptorOffers(pcode, "all_pcode", "pcode")
                            \o MraptorOffers(xlm_macros, "xlm_macros", "XLM macros")) } :
        \E found \in FindingsFor(macros), lib \in ReservedTables :
        \E scanned \in { ScanMacros(CurrentSafelist, lib, FreshNetwork, macros, found) } :
        \E vba \in ScansFor(macros), pcode_scan \in ScansFor(pcode), xlm \in XlmScansFor(xlm_macros) :
        \E stomp \in { StompSection(vba_stomping, vba, pcode_scan) } :
            /\ call' = [op |-> "_create_macro_sections", vba |-> vba, pcode |-> pcode_scan,
                        xlm_lines |-> IF xlm_macros # << >> THEN xlm.matches ELSE << >>,
                        ret |-> stomp,
                        found |-> found,
                        network_section |-> NetworkSection(scanned),
                        subsections |-> MacroSubsections(macros, found,
                                                         xlm_macros # << >>, stomp)]
            /\ extracted_files' = sink.files
            /\ working_directory' = sink.wd
    /\ UNCHANGED << deep_scan, request_extracted, result_lines, offered, safeVars, macroVars >>

\* ----------------------------------------------------- base64 recovery
\* what self.patterns.ioc_match(base64data, bogon_ip=True) reports for the
\* candidates
B64Hits ==
    [ name \in DOMAIN B64Content |->
        CASE name = "B13" -> { Hit("file.name.extracted", "word/vbaProject.bin"),
                               Hit("network.static.uri", "http://evil.example/a") }
          [] name = "B14" -> { Hit("network.static.domain", "www.microsoft.com") }
          [] name = "B02" -> { Hit("file.string.blacklisted", "powershell"),
                               Hit("file.string.api", "powershell") }
          [] name = "B05" -> { Hit("network.static.domain", "Evil.Example") }
          [] OTHER -> {} ]

\* bytes(i for i in base64data if 31 < i < 127), line 2236
PrintableRuns(runs) == SelectSeq(runs, LAMBDA r : 31 < r.byte /\ r.byte < 127)

\* the bytes rb"\s" matches
WhitespaceBytes == {9, 10, 11, 12, 13, 32}

\* len(set(asc_b64))
DistinctBytes(runs) == Cardinality({ runs[i].byte : i \in DOMAIN runs })

\* len(re.sub(rb"\s", b"", asc_b64))
NonSpaceLen(runs) ==
    RunsLen(SelectSeq(runs, LAMBDA r : r.byte \notin WhitespaceBytes))

\* line 2238 as it would be if every printable dump were kept
AsciiWorthAny(asc_b64) == TRUE

\* line 2238: the dump has more than 6 distinct characters and more than 14
\* characters that are not whitespace
AsciiWorth(asc_b64) == ~(DistinctBytes(asc_b64) <= 6 \/ NonSpaceLen(asc_b64) <= 14)

\* lines 2256-2259: sub_b64_res.add_tag(ty, v) for every hit of the matcher
B64Tags(hits) ==
    [ t \in { h.type : h \in hits } |-> { h.ioc : h \in { x \in hits : x.type = t } } ]

\* lines 2245-2259: the "Result <sha256>" subsection of one payload
B64Entry(data, dumped) ==
    [ data |-> data,
      title |-> "Result " \o Sha256Hex(data),
      size |-> DecodedLen(data),
      dump |-> dumped,
      file |-> IF dumped THEN ""
               ELSE SubSeq(Sha256Hex(data), 1, B64LinePrefixLen) \o "_b64_decoded",
      tags |-> B64Tags(B64Hits[data]) ]

\* lines 2217-2259: the body of the loop for one candidate, acc holding
\* seen_base64, the subsections of b64_res, b64_ascii_content and the offers
\* made to _extract_file
B64Step(acc, data) ==
    IF data \in acc.seen \/ ~(MAX_BASE64_CHARS > DecodedLen(data) /\ DecodedLen(data) > 30)
    THEN acc
    ELSE LET seen == acc.seen \cup {data}
             skipped == [acc EXCEPT !.seen = seen]
         IN  IF DecodedLen(data) > MAX_STRINGDUMP_CHARS
             THEN IF ~Contains(MimeType(data), "octet-stream") THEN skipped
                  ELSE [ seen |-> seen,
                         entries |-> Append(acc.entries, B64Entry(data, FALSE)),
                         ascii |-> acc.ascii,
                         offers |-> Append(acc.offers,
                            [ data |-> data, file_name |-> "_b64_decoded",
                              description |-> "Extracted b64 file during OLETools analysis" ]) ]
             ELSE IF ~AsciiWorth(PrintableRuns(B64Content[data])) THEN skipped
                  ELSE [ seen |-> seen,
                         entries |-> Append(acc.entries, B64Entry(data, TRUE)),
                         ascii |-> Append(acc.ascii, data),
                         offers |-> acc.offers ]

RECURSIVE B64Loop(_, _)
\* the loop of line 2216 over what find_base64 yields
B64Loop(acc, found) ==
    IF found = << >> THEN acc
    ELSE B64Loop(B64Step(acc, Head(found)), Tail(found))

RECURSIVE JoinNames(_)
\* the name of b"\n".join(b64_ascii_content): the dumps it joins
JoinNames(names) ==
    IF names = << >> THEN ""
    ELSE IF Len(names) = 1 THEN "dump:" \o names[1]
    ELSE "dump:" \o names[1] \o "+" \o JoinNames(Tail(names))

\* _check_for_b64(data, dataname), lines 2212-2265: the subsections of the
\* section returned (none: the function returns None) and the offers made
check_for_b64(found, dataname) ==
    LET done == B64Loop([seen |-> {}, entries |-> << >>, ascii |-> << >>,
                         offers |-> << >>], found)
    IN  [ entries |-> done.entries,
          offers |-> IF done.ascii = << >> THEN done.offers
                     ELSE Append(done.offers,
                            [ data |-> JoinNames(done.ascii), file_name |-> "_b64.txt",
                              description |-> "b64 for " \o dataname ]) ]

\* the number of candidates find_base64 yields in the data of the model
MaxFound == 2

\* the sequences find_base64 may yield: the same payload may be found twice
FoundSeqs == UNION { [1..n -> DOMAIN B64Content] : n \in 0..MaxFound }

\* the stream and part names the callers pass as dataname
DataNames == {"WordDocument"}

\* A caller runs _check_for_b64 on the data of a stream or of a zipped part.
CheckForB64 ==
    /\ pc = "reset"
    /\ pc' = "stages"
    /\ \E found \in FoundSeqs, dataname \in DataNames :
        \E ret \in {check_for_b64(found, dataname)} :
        \E sink \in {SinkAfter(extracted_files, working_directory, ret.offers)} :
            /\ call' = [op |-> "_check_for_b64", found |-> found,
                        dataname |-> dataname, ret |-> ret]
            /\ extracted_files' = sink.files
            /\ working_directory' = sink.wd
            /\ offered' = offered
                    \cup {<< ret.offers[i].data, ret.offers[i].file_name >> :
                            i \in 1..Len(ret.offers)}
    /\ UNCHANGED << deep_scan, request_extracted, result_lines, safeVars, macroVars >>

\* ------------------------------------------------- the stages of execute
\* A stage of the try block of execute(), lines 430-452: the function called
\* and the line of the call.
Stage(fn, line) == [fn |-> fn, line |-> line]

\* the calls of lines 431-450 in their order
ExecuteStages ==
    << Stage("_check_for_indicators", 431), Stage("_check_for_indicators", 433),
       Stage("_check_for_dde_links", 435), Stage("_rip_mhtml", 437),
       Stage("_extract_streams", 439), Stage("_extract_rtf", 440),
       Stage("_check_for_macros", 442), Stage("_create_macro_sections", 444),
       Stage("_check_zip", 447), Stage("_check_xml_strings", 449),
       Stage("_odf_with_macros", 450) >>

\* the title of the section a stage adds to the result
StageTitle(fn) ==
    CASE fn = "_check_for_indicators" -> "OleID indicators"
      [] fn = "_check_for_dde_links" -> "MSO DDE Links:"
      [] fn = "_rip_mhtml" -> "ActiveMime Document(s) in multipart/related"
      [] fn = "_extract_streams" -> "OLE Document"
      [] fn = "_extract_rtf" -> "RTF objects"
      [] fn = "_check_for_macros" -> "OleVBA : Error parsing macros"
      [] fn = "_create_macro_sections" -> "OleVBA : Macros detected"
      [] fn = "_check_zip" -> "Document's .ZIP archive is malformed"
      [] fn = "_check_xml_strings" -> "External links"
      [] fn = "_odf_with_macros" -> "ODF file may contain macro"

\* no link in the artifact
NoLink == "<no link>"

\* What the part of a stage that hands a link of the artifact to
\* _process_link comes to: lines 1483-1490 for the attached template of RTF
\* data, lines 1975-1987 for the external links of the zipped parts.
LinkOutcome(S, lib, link_type, link) ==
    IF link = NoLink \/ safe_str(link) = "" THEN "none"
    ELSE IF process_link(S, lib, link_type, link).raised THEN "raised"
    ELSE "section"

\* What a stage does to the result of a request req: "skipped" (the call is
\* not made for this file), "none" (no evidence), "section" (a section is
\* added), "caught" (the stage failed and caught its failure: no evidence) or
\* "raised" (the failure left the stage). _check_for_indicators (489-519),
\* _check_for_dde_links (531-545), _extract_streams (643-669),
\* _check_for_macros (1534-1587) and _create_macro_sections (1600-1669) hold
\* their work in a try block; _process_rtf_alternate_metadata (line 1293)
\* and the loop over the external links (line 1987) call _process_link
\* outside of one.
StageOutcome(stage, req, links) ==
    CASE stage.fn = "_check_for_indicators" -> req.indicators
      [] stage.fn = "_check_for_dde_links" -> req.dde
      [] stage.fn = "_rip_mhtml" ->
            IF req.file_type = "document/office/mhtml" THEN "none" ELSE "skipped"
      [] stage.fn = "_extract_streams" -> req.streams
      [] stage.fn = "_extract_rtf" ->
            IF req.file_type = "document/installer/windows" THEN "skipped"
            ELSE links.template
      [] stage.fn = "_check_for_macros" -> req.macros
      [] stage.fn = "_create_macro_sections" ->
            IF req.macros = "none" THEN "section" ELSE "none"
      [] stage.fn = "_check_zip" -> IF req.is_zip THEN req.zip ELSE "skipped"
      [] stage.fn = "_check_xml_strings" ->
            IF ~req.is_zip THEN "skipped"
            ELSE links.external
      [] stage.fn = "_odf_with_macros" ->
            IF StartsWith(req.file_type, "document/odt") /\ req.basic THEN "section"
            ELSE "none"

RECURSIVE RunStages(_, _, _, _)
\* the try block of lines 430-452 from the stages still to call on: the
\* stages called, the sections added and whether the except clause of line
\* 451 logged a critical error
RunStages(stages, req, links, acc) ==
    IF stages = << >> THEN acc
    ELSE LET stage == Head(stages)
             outcome == StageOutcome(stage, req, links)
             called == IF outcome = "skipped" THEN acc.called
                       ELSE Append(acc.called, stage)
         IN  IF outcome = "raised"
             THEN [called |-> called, sections |-> acc.sections, critical |-> TRUE]
             ELSE RunStages(Tail(stages), req, links,
                    [called |-> called,
                     sections |-> IF outcome = "section"
                                  THEN Append(acc.sections,
                                         [title |-> StageTitle(stage.fn), line |-> stage.line])
                                  ELSE acc.sections,
                     critical |-> FALSE])

\* execute(), lines 430-452, on a request
execute_stages(req, links) ==
    RunStages(ExecuteStages, req, links,
              [called |-> << >>, sections |-> << >>, critical |-> FALSE])

\* the file types of the requests
FileTypes == {"document/office/mhtml", "document/installer/windows", "document/odt/text"}

\* what a stage that holds its work in a try block may come to
GuardedOutcomes == {"none", "section", "caught"}

\* the attached template of the RTF data and the external link of the
\* zipped parts
StageLinks == {NoLink, "http://example.com/a/b", "mshta"}

\* the requests of the model
Requests ==
    [ file_type : FileTypes, is_zip : BOOLEAN, indicators : GuardedOutcomes,
      dde : {"section", "caught"}, streams : {"section", "caught"},
      template : StageLinks, macros : {"none", "caught"}, zip : {"none", "section"},
      external : StageLinks, basic : BOOLEAN ]

\* The stages of execute() run on a request.
ExecuteTry ==
    /\ pc = "reset"
    /\ pc' = "stages"
    /\ \E template \in StageLinks, external \in StageLinks, lib \in ReservedTables :
        \E links \in {[template |-> LinkOutcome(CurrentSafelist, lib,
                                                "attachedtemplate", template),
                        external |-> LinkOutcome(CurrentSafelist, lib,
                                                "hyperlink", external)]} :
        \E req \in { r \in Requests : r.template = template /\ r.external = external } :
        \E ret \in {execute_stages(req, links)} :
            call' = [op |-> "execute", req |-> req, lib |-> lib, ret |-> ret]
    /\ UNCHANGED << deep_scan, request_extracted, result_lines, sinkVars, safeVars,
                    macroVars >>

\* ------------------------------------------------------- tag collation
\* collated[_type] = set(values): the loop body as it would be if a later
\* input replaced the values of an earlier one
CollateAssign(collated, tags) ==
    [ t \in DOMAIN collated \cup DOMAIN tags |->
        IF t \in DOMAIN tags THEN Range(tags[t]) ELSE collated[t] ]

\* collate_tags, lines 67-68: collated[_type].update(values) for every type
\* of one input; collated is a defaultdict(set)
CollateUpdate(collated, tags) ==
    [ t \in DOMAIN collated \cup DOMAIN tags |->
        (IF t \in DOMAIN collated THEN collated[t] ELSE {})
            \cup (IF t \in DOMAIN tags THEN Range(tags[t]) ELSE {}) ]

RECURSIVE Collated(_, _)
\* collate_tags, lines 65-68: the loop over tags_list
Collated(collated, tags_list) ==
    IF tags_list = << >> THEN collated
    ELSE Collated(CollateUpdate(collated, Head(tags_list)), Tail(tags_list))

\* list(tag_set): the lists that hold each element of the set once; the
\* order is the iteration order of the set, which the language leaves open
ListsOfSet(tag_set) ==
    { l \in [1..Cardinality(tag_set) -> tag_set] : Range(l) = tag_set }

\* collate_tags(tags_list), lines 64-69: the dictionaries it may return
collate_tags(tags_list) ==
    LET collated == Collated(<< >>, tags_list)
    IN  { ret \in [DOMAIN collated -> UNION { ListsOfSet(collated[t]) : t \in DOMAIN collated }] :
            \A t \in DOMAIN collated : Range(ret[t]) = collated[t] }

\* the tag types and the value lists of the tags of one processed link
CollateTypes == {"network.static.uri", "network.static.domain"}
CollateValues ==
    { << >>, << "evil.com" >>, << "evil.com", "a.com" >>, << "a.com", "a.com" >> }

\* the Tags dictionaries of the processed links
TagsDicts ==
    UNION { [types -> CollateValues] : types \in SUBSET CollateTypes }

\* bound: the processed links of one verdict group
MaxTagsList == 2

\* _check_xml_strings collates the tags of the links of one verdict group.
CollateTags ==
    /\ pc = "reset"
    /\ pc' = "stages"
    /\ \E n \in 0..MaxTagsList :
        \E tags_list \in [1..n -> TagsDicts] :
        \E ret \in collate_tags(tags_list) :
            call' = [op |-> "collate_tags", tags_list |-> tags_list, ret |-> ret]
    /\ UNCHANGED << deep_scan, request_extracted, result_lines, sinkVars, safeVars,
                    macroVars >>

\* ------------------------------------------------- the scan of zipped parts
MAX_XML_SCAN_CHARS == 500000

\* A zipped part: the length of its contents, whether etree.XML parses them
\* and the length of what etree.tostring gives back for the parsed tree.
XmlPart(name, size, wellformed, serialized) ==
    [name |-> name, size |-> size, wellformed |-> wellformed, serialized |-> serialized]

\* a scan of a pattern over so many bytes of a part
PartScan(part, pattern, bytes) == [part |-> part.name, pattern |-> pattern, bytes |-> bytes]

\* _check_xml_strings, lines 1933-1941: len(data) before the ceiling is
\* applied; the raw contents are used when parsing fails
PartDataLen(part) == IF part.wellformed THEN part.serialized ELSE part.size

\* lines 1943-1944: data[: self.MAX_XML_SCAN_CHARS]
ScannedLen(part) ==
    IF PartDataLen(part) > MAX_XML_SCAN_CHARS THEN MAX_XML_SCAN_CHARS
    ELSE PartDataLen(part)

\* lines 1933-1962: the scans made over one part, in their order; the
\* external-link pattern is searched in the raw contents at line 1941, when
\* parsing has failed, before the ceiling is applied
PartScans(part) ==
    (IF part.wellformed THEN << >>
     ELSE << PartScan(part, "EXTERNAL_LINK_RE", part.size) >>)
        \o << PartScan(part, "ddeLink", ScannedLen(part)),
              PartScan(part, "JAVASCRIPT_RE", ScannedLen(part)),
              PartScan(part, "ioc_match", ScannedLen(part)),
              PartScan(part, "find_base64", ScannedLen(part)) >>

\* lines 1927-1962: the body of the loop for one part; acc holds the scans
\* made so far and the lines and heuristic frequency of xml_big_res
XmlStep(acc, part) ==
    [ scans |-> acc.scans \o PartScans(part),
      big_lines |-> IF PartDataLen(part) > MAX_XML_SCAN_CHARS
                    THEN Append(acc.big_lines, part.name) ELSE acc.big_lines,
      big_frequency |-> IF PartDataLen(part) > MAX_XML_SCAN_CHARS
                        THEN acc.big_frequency + 1 ELSE acc.big_frequency ]

RECURSIVE XmlLoop(_, _)
\* the loop of line 1927 over z.namelist()
XmlLoop(acc, parts) ==
    IF parts = << >> THEN acc ELSE XmlLoop(XmlStep(acc, Head(parts)), Tail(parts))

\* _check_xml_strings over the parts of the archive: the scans made, and
\* whether the section of the parts too large is added (line 2005)
check_xml_strings(parts) ==
    LET done == XmlLoop([scans |-> << >>, big_lines |-> << >>, big_frequency |-> 0], parts)
    IN  [ scans |-> done.scans, big_lines |-> done.big_lines,
          big_frequency |-> done.big_frequency,
          big_section |-> done.big_lines # << >> ]

\* the lengths of the parts of the model
PartSizes == { 400, 499999, 500000, 500001, 1200000 }

\* bound: the parts of one archive
MaxParts == 2

\* the archives of the model: part k is named after its place
XmlArchives ==
    UNION { { [k \in 1..n |-> XmlPart(ToString(k), f[k].size, f[k].wellformed,
                                         f[k].serialized)] :
                f \in [1..n -> [size : PartSizes, wellformed : BOOLEAN,
                                serialized : { 400, 500001 }]] }
            : n \in 0..MaxParts }

\* _check_xml_strings runs over the parts of a zipped document.
CheckXmlStrings ==
    /\ pc = "reset"
    /\ pc' = "stages"
    /\ \E parts \in XmlArchives :
        \E ret \in {check_xml_strings(parts)} :
            call' = [op |-> "_check_xml_strings", parts |-> parts, ret |-> ret]
    /\ UNCHANGED << deep_scan, request_extracted, result_lines, sinkVars, safeVars,
                    macroVars >>

\* ------------------------------------------ the streams of an OLE file
\* What the libraries find in the data of a stream: b"FWS" in data,
\* b"CWS" in data, the SWF objects xxxswf.findSWF locates and _verify_swf
\* confirms, the chunks VBS_HEX_RE finds (as decoded by _extract_vb_hex),
\* whether a SUSPICIOUS_STRINGS pattern matches, the raw hits of
\* ioc_match, the candidates of find_base64, the data OleNativeStream
\* parses ("" when it does not parse) and whether PowerPointDoc parses.
Content(fws, cws, swf, hex, sus, hits, found, native, ppt) ==
    [ fws |-> fws, cws |-> cws, swf |-> swf, hex |-> hex, sus |-> sus,
      hits |-> hits, found |-> found, native |-> native, ppt |-> ppt ]

\* the stream data of the model, by name
StreamContent ==
    [ S01 |-> Content(FALSE, FALSE, << >>, << >>, FALSE, {}, << >>, "", FALSE),
      S02 |-> Content(FALSE, FALSE, << >>, << >>, TRUE,
                      {Hit("file.string.blacklisted", "http")}, << >>, "", FALSE),
      S04 |-> Content(TRUE, FALSE, << >>, << >>, FALSE, {}, << >>, "", FALSE),
      S05 |-> Content(FALSE, TRUE, << "W05" >>, << >>, FALSE, {}, << >>, "", FALSE),
      S06 |-> Content(FALSE, TRUE, << >>, << >>, FALSE, {}, << >>, "", FALSE),
      S07 |-> Content(FALSE, FALSE, << >>, << "H07" >>, FALSE, {}, << >>, "", FALSE),
      S08 |-> Content(FALSE, FALSE, << >>, << >>, FALSE,
                      {Hit("network.static.uri", "http://evil.example/a")},
                      << "B13" >>, "", FALSE),
      S10 |-> Content(FALSE, FALSE, << >>, << >>, TRUE, {}, << >>, "N10", FALSE),
      S11 |-> Content(FALSE, FALSE, << >>, << >>, TRUE, {}, << >>, "", TRUE) ]

\* an entry of ole.listdir() with the data of its stream
Stream(name, data) == [name |-> name, data |-> data]

\* an offer to _extract_file
Offer(data, file_name, description) ==
    [data |-> data, file_name |-> file_name, description |-> description]

\* line 742, as Python groups it:
\* b"FWS" in data or (b"CWS" in data and self._extract_swf_objects(stream))
FlashDetected(d) == d.fws \/ (d.cws /\ d.swf # << >>)

\* _extract_swf_objects is called only when b"FWS" in data is false and
\* b"CWS" in data is true; it offers every confirmed SWF object
SwfOffers(d) ==
    IF ~d.fws /\ d.cws
    THEN [ i \in 1..Len(d.swf) |->
            Offer(d.swf[i], ".swf", "Flash file extracted during sample analysis") ]
    ELSE << >>

\* _extract_vb_hex on every chunk VBS_HEX_RE finds
HexOffers(d) ==
    [ i \in 1..Len(d.hex) |->
        Offer(d.hex[i], ".hex.decoded",
              "Large hex encoded chunks detected during sample analysis") ]

\* lines 772-775 and 798-799: extract_stream after the suspicious strings
\* and the IOC scan
ExtractAfterScan(name, sus_matched, scan_extract) ==
    IF StartsWith(name, "__SRP_") THEN sus_matched ELSE scan_extract

\* line 817
ExtractDue(extract_stream, swf_body, hex_body, extract_all, is_installer) ==
    extract_stream \/ swf_body # << >> \/ hex_body # << >> \/ extract_all \/ is_installer

\* lines 752-823 for a stream neither the Ole10Native nor the PowerPoint
\* branch has taken; the documents of the model hold no
\* HwpSummaryInformation stream (decompress is False)
StreamScan(S, acc, s, extract_all, is_installer) ==
    LET d == StreamContent[s.data]
        hex_body == acc.hex_body \o [ i \in 1..Len(d.hex) |-> s.name ]
        sus_matched == d.sus /\ ~Contains(s.name, "_VBA_PROJECT")
        scan == CheckForPatternsUnder(S, d.hits, extract_all)
        b64 == check_for_b64(d.found, s.name)
        extract_stream == \/ ExtractAfterScan(s.name, sus_matched, scan.extract)
                          \/ b64.entries # << >>
        due == ExtractDue(extract_stream, acc.swf_body, hex_body, extract_all,
                          is_installer)
    IN  [ acc EXCEPT
            !.hex_body = hex_body,
            !.sus = IF sus_matched THEN @ \cup {s.name} ELSE @,
            !.offers = @ \o HexOffers(d) \o b64.offers
                         \o IF due
                            THEN << Offer(s.data, ".ole_stream",
                                          "Embedded OLE Stream " \o s.name) >>
                            ELSE << >>,
            !.streams = IF due THEN Append(@, s.name) ELSE @ ]

\* the body of the loop over ole.listdir(), lines 728-823; the natives of
\* the model are no .vbs scripts and its PowerPoint documents hold no
\* embedded storage
StreamStep(S, acc, s, extract_all, is_installer) ==
    LET d == StreamContent[s.data]
        stm_sha == Sha256Hex(s.data)
    IN  IF stm_sha \in acc.examined THEN acc
        ELSE LET seen == [ acc EXCEPT
                            !.examined = @ \cup {stm_sha},
                            !.swf_body = IF FlashDetected(d) THEN Append(@, s.name) ELSE @,
                            !.offers = @ \o SwfOffers(d) ]
             IN  IF Contains(s.name, "Ole10Native") /\ d.native # ""
                 THEN [ seen EXCEPT
                         !.ole10 = Append(@, s.name),
                         !.offers = Append(@, Offer(d.native, ".ole10native",
                                                    "Embedded OLE Stream " \o s.name)) ]
                 ELSE IF Contains(s.name, "PowerPoint Document") /\ d.ppt
                 THEN [ seen EXCEPT !.pwrpnt = Append(@, s.name) ]
                 ELSE StreamScan(S, seen, s, extract_all, is_installer)

RECURSIVE StreamLoop(_, _, _, _, _)
StreamLoop(S, acc, streams, extract_all, is_installer) ==
    IF streams = << >> THEN acc
    ELSE StreamLoop(S, StreamStep(S, acc, Head(streams), extract_all, is_installer),
                    Tail(streams), extract_all, is_installer)

\* _process_ole_file over the streams of the file: the streams named in
\* swf_sec, hex_sec and sus_sec, the streams the Ole10Native and PowerPoint
\* branches took, the streams extracted and every offer to the sink
process_ole_file(S, streams, extract_all, is_installer) ==
    StreamLoop(S, [ examined |-> {}, swf_body |-> << >>, hex_body |-> << >>,
                    sus |-> {}, ole10 |-> << >>, pwrpnt |-> << >>,
                    streams |-> << >>, offers |-> << >> ],
               streams, extract_all, is_installer)

\* the streams the OLE files of the model hold
StreamUniverse ==
    { Stream("WordDocument", "S01"), Stream("WordDocument", "S02"),
      Stream("Macros/_VBA_PROJECT", "S02"), Stream("__SRP_0", "S02"),
      Stream("ObjectPool/_1/Contents", "S04"), Stream("ObjectPool/_2/Contents", "S05"),
      Stream("ObjectPool/_3/Contents", "S06"), Stream("Macros/VBA/Module1", "S07"),
      Stream("1Table", "S08"), Stream("ObjectPool/Ole10Native", "S10"),
      Stream("PowerPoint Document", "S11") }

\* the number of streams of an OLE file of the model
MaxStreams == 2

OleDirs == UNION { [1..n -> StreamUniverse] : n \in 0..MaxStreams }

\* _extract_streams runs _process_ole_file on an OLE file.
ProcessOleFile ==
    /\ pc = "reset"
    /\ pc' = "stages"
    /\ \E streams \in OleDirs, extract_all \in BOOLEAN, is_installer \in BOOLEAN :
        \E ret \in {process_ole_file(CurrentSafelist, streams, extract_all, is_installer)} :
        \E sink \in {SinkAfter(extracted_files, working_directory, ret.offers)} :
            /\ call' = [op |-> "_process_ole_file", streams |-> streams,
                        extract_all |-> extract_all, is_installer |-> is_installer,
                        ret |-> ret]
            /\ extracted_files' = sink.files
            /\ working_directory' = sink.wd
            /\ offered' = offered
                    \cup {<< ret.offers[i].data, ret.offers[i].file_name >> :
                            i \in 1..Len(ret.offers)}
    /\ UNCHANGED << deep_scan, request_extracted, result_lines, safeVars, macroVars >>

\* The service over its submissions.
Next ==
    \/ Start
    \/ ExecuteBegin
    \/ ProcessOleStream
    \/ ProcessOleClsid
    \/ ProcessOle10Native
    \/ CheckForMacros
    \/ ExecuteEnd

Spec == Init /\ [][Next]_vars

\* The started service of one deployment: no configured safelist entries,
\* the default safelist tables.
InitSink ==
    /\ Init
    /\ ioc_pattern_safelist = <<>>
    /\ ioc_exact_safelist = <<>>
    /\ match_safelist = EmptyTable
    /\ regex_safelist = EmptyTable

\* The extraction sink within the submissions.
NextSink ==
    \/ Start
    \/ ExecuteBegin
    \/ SinkOffer
    \/ CheckForB64File
    \/ ExecuteEnd

SpecSink == InitSink /\ [][NextSink]_vars

\* A deployment with configured safelist entries; the tables are any of
\* those the safelist source may hold.
InitMatch ==
    /\ Init
    /\ ioc_pattern_safelist = <<"example.org">>
    /\ ioc_exact_safelist = <<"contoso.example">>
    /\ \E k \in 1..Len(TableLevels) :
        /\ match_safelist = TableLevels[k].match
        /\ regex_safelist = TableLevels[k].regex

\* The safelist filter and the IOC matcher within the submissions.
NextMatch ==
    \/ Start
    \/ ExecuteBegin
    \/ IsSafelisted
    \/ CheckForPatterns
    \/ ExecuteEnd

SpecMatch == InitMatch /\ [][NextMatch]_vars

\* The link processor within the submissions.
NextLink ==
    \/ Start
    \/ ExecuteBegin
    \/ ProcessLink
    \/ ExecuteEnd

SpecLink == InitMatch /\ [][NextLink]_vars

\* The report on external links within the submissions.
NextGroup ==
    \/ Start
    \/ ExecuteBegin
    \/ GroupLinks
    \/ ExecuteEnd

SpecGroup == Init /\ [][NextGroup]_vars

\* The deobfuscator within the submissions.
NextDeobf ==
    \/ Start
    \/ ExecuteBegin
    \/ Deobfuscate
    \/ ExecuteEnd

SpecDeobf == InitMatch /\ [][NextDeobf]_vars

\* The macro scoring within the submissions.
NextFlag ==
    \/ Start
    \/ ExecuteBegin
    \/ FlagMacro
    \/ ExecuteEnd

\* one configuration of the safelists
InitOne ==
    /\ InitMatch
    /\ match_safelist = TableLevels[1].match
    /\ regex_safelist = TableLevels[1].regex

SpecFlag == InitOne /\ [][NextFlag]_vars

\* The macro sections within the submissions.
NextStomp ==
    \/ Start
    \/ ExecuteBegin
    \/ CheckForMacros
    \/ CreateMacroSections
    \/ ExecuteEnd

SpecStomp == InitOne /\ [][NextStomp]_vars

\* The base64 recovery within the submissions.
NextB64 ==
    \/ Start
    \/ ExecuteBegin
    \/ CheckForB64
    \/ ExecuteEnd

SpecB64 == InitOne /\ [][NextB64]_vars

\* The stages of execute() within the submissions.
NextExec ==
    \/ Start
    \/ ExecuteBegin
    \/ ExecuteTry
    \/ ExecuteEnd

SpecExec == InitOne /\ [][NextExec]_vars

\* The tag collation within the submissions.
NextTags ==
    \/ Start
    \/ ExecuteBegin
    \/ CollateTags
    \/ ExecuteEnd

SpecTags == InitOne /\ [][NextTags]_vars

\* The scan of the zipped parts within the submissions.
NextXml ==
    \/ Start
    \/ ExecuteBegin
    \/ CheckXmlStrings
    \/ ExecuteEnd

SpecXml == InitOne /\ [][NextXml]_vars

NextOle ==
    \/ Start
    \/ ExecuteBegin
    \/ ProcessOleFile
    \/ ExecuteEnd

SpecOle == InitOne /\ [][NextOle]_vars

\* ------------------------------------------------------------ the claims

\* C1: within one submission, a second offer to _extract_file of a payload and
\* suffix that an earlier offer registered is a no-op: it returns none and
\* leaves the registry as it was.
C1_SecondOfferIsNoop ==
    (call.op = "_extract_file" /\ call.seen /\ call.registered)
        => (call.ret = None /\ ~call.changed)

\* C2: every artifact name the service registers, writes or quotes in a
\* result line is the first 8 hex characters of the payload's SHA-256
\* followed by the suffix, the same name for the same payload everywhere.
C2_ArtifactNamesAgree ==
    /\ \A i \in 1..Len(extracted_files) :
        \E d \in Payloads, sfx \in Suffixes :
            /\ extracted_files[i].name = ArtifactName(d, sfx)
            /\ extracted_files[i].name \in DOMAIN working_directory
            /\ working_directory[extracted_files[i].name] = d
    /\ \A line \in result_lines :
        line.file = ArtifactName(line.payload, "_b64_decoded")

\* C3: an offer whose payload is identified as "unknown", or during which
\* anything fails, returns none and registers nothing; the same holds when
\* the identical offer is repeated.
C3_UnknownOrFailedOfferIsNoop ==
    (call.op = "_extract_file" /\ (Identify(call.data) = "unknown" \/ call.fault # "none"))
        => (call.ret = None /\ ~call.changed)

\* C3's case: an unknown-type payload offered a second time, nothing failing.
C3_Witness ==
    /\ call.op = "_extract_file"
    /\ Identify(call.data) = "unknown"
    /\ call.fault = "none"
    /\ call.seen

FreshSubmission ==
    /\ extracted_files = <<>>
    /\ extracted_clsids = {}
    /\ macros = <<>>
    /\ xlm_macros = <<>>
    /\ pcode = <<>>
    /\ vba_stomping = FALSE

\* C4: every execute() starts its analysis stages with the registry, the
\* CLSID set, the macro, XLM and p-code lists empty and the stomping flag
\* false, and no step of a submission changes the safelist tables or the
\* trigraph table.
C4_PerSubmissionIsolation ==
    [][ /\ (pc' = "reset" => FreshSubmission')
        /\ (pc # "constructed" =>
                UNCHANGED << match_safelist, regex_safelist, word_chains >>) ]_vars

\* C4's case: a submission starts after an earlier one left files behind.
C4_Witness ==
    /\ pc = "reset"
    /\ working_directory # EmptyTable

\* C5: during a submission the active lists are the built-in lists alone in
\* deep-scan mode and the built-in lists followed by the configured ones
\* otherwise, whatever the earlier submissions were; the deep-scan profile
\* is contained in the other.
C5_SafelistProfile ==
    InStages =>
        /\ pat_safelist = IF deep_scan THEN URI_SAFELIST
                          ELSE URI_SAFELIST \o ioc_pattern_safelist
        /\ tag_safelist = IF deep_scan THEN TAG_SAFELIST
                          ELSE TAG_SAFELIST \o ioc_exact_safelist
        /\ deep_scan => /\ Range(pat_safelist) \subseteq
                              Range(URI_SAFELIST \o ioc_pattern_safelist)
                        /\ Range(tag_safelist) \subseteq
                              Range(TAG_SAFELIST \o ioc_exact_safelist)

\* C5's case: a deep scan of a service with configured entries, after an
\* earlier submission.
C5_Witness ==
    /\ InStages
    /\ deep_scan
    /\ ioc_pattern_safelist # <<>>
    /\ ioc_exact_safelist # <<>>
    /\ working_directory # EmptyTable

NextUri ==
    \/ Start
    \/ ExecuteBegin
    \/ ParseUri
    \/ ExecuteEnd

\* the URI parser driven within the service lifecycle
SpecUri == Init /\ [][NextUri]_vars


\* C6 as stated: is_safelisted is true exactly when the value equals,
\* ignoring case, a literal registered for its tag type or a regex registered
\* for its tag type matches somewhere in it.
C6_SafelistedIffTableEntry ==
    call.op = "is_safelisted" =>
        (call.ret <=>
            \/ tag_contains_match(call.tag, TableGet(match_safelist, call.tag_type))
            \/ regex_searches_tag(call.tag, TableGet(regex_safelist, call.tag_type)))

\* the table with the entries of one tag type alone
OnlyType(table, tag_type) == [t \in DOMAIN table \cap {tag_type} |-> table[t]]

\* C6 as amended: Oletools.is_safelisted is true exactly when the value
\* contains an entry of the active pattern list, or its lower-cased form is an
\* entry of the active exact list (both whatever the tag type), or it equals,
\* ignoring case, a literal registered for its tag type, or a regex registered
\* for its tag type matches it from its first character; table entries of
\* another tag type never count.
C6_SafelistedIffAnyList ==
    call.op = "is_safelisted" =>
        /\ call.ret <=>
            \/ \E p \in Range(pat_safelist) : Contains(call.tag, p)
            \/ \E e \in Range(tag_safelist) : e = Lower(call.tag)
            \/ \E lit \in Range(TableGet(match_safelist, call.tag_type)) :
                    Lower(lit) = Lower(call.tag)
            \/ \E regex \in Range(TableGet(regex_safelist, call.tag_type)) :
                    ReMatch(regex, call.tag)
        /\ call.ret <=>
            SafelistedUnder([pat |-> pat_safelist, tag |-> tag_safelist,
                             match |-> OnlyType(match_safelist, call.tag_type),
                             regex |-> OnlyType(regex_safelist, call.tag_type)],
                            call.tag_type, call.tag)

\* C6's case: a value safelisted by a built-in list alone, and a value a
\* registered regex occurs in but does not match from the start.
C6_Witness ==
    /\ call.op = "is_safelisted"
    /\ ~call.ret
    /\ regex_searches_tag(call.tag, TableGet(regex_safelist, call.tag_type))

\* The safelist states a deployment of the model can be in.
SafelistStates ==
    { [pat |-> p, tag |-> t, match |-> TableLevels[k].match, regex |-> TableLevels[k].regex] :
        p \in {URI_SAFELIST, URI_SAFELIST \o ioc_pattern_safelist},
        t \in {TAG_SAFELIST, TAG_SAFELIST \o ioc_exact_safelist},
        k \in 1..Len(TableLevels) }

\* every entry of S is an entry of T
SafelistLeq(S, T) ==
    /\ Range(S.pat) \subseteq Range(T.pat)
    /\ Range(S.tag) \subseteq Range(T.tag)
    /\ \A ty \in TagTypes :
        /\ Range(TableGet(S.match, ty)) \subseteq Range(TableGet(T.match, ty))
        /\ Range(TableGet(S.regex, ty)) \subseteq Range(TableGet(T.regex, ty))

TagsWithin(small, big) ==
    \A ty \in DOMAIN small : ty \in DOMAIN big /\ small[ty] \subseteq big[ty]

\* C7: for the buffer and flag of a call, under every safelist state that
\* holds all entries of the one the call read, the tags returned are among
\* those the call returned and the extract flag implies the call's.
C7_SafelistMonotonic ==
    call.op = "_check_for_patterns" =>
        \A T \in SafelistStates :
            SafelistLeq(CurrentSafelist, T) =>
                LET r == CheckForPatternsUnder(T, call.found, call.include_fpos)
                IN  /\ TagsWithin(r.tags, call.tags)
                    /\ r.extract => call.extract

\* C7's case: a larger safelist state removes a tag and the extract flag.
C7_Witness ==
    /\ call.op = "_check_for_patterns"
    /\ call.extract
    /\ \E T \in SafelistStates :
        /\ SafelistLeq(CurrentSafelist, T)
        /\ LET r == CheckForPatternsUnder(T, call.found, call.include_fpos)
           IN  /\ ~r.extract
               /\ ~TagsWithin(call.tags, r.tags)

InTags(tags, ty, ioc) == ty \in DOMAIN tags /\ ioc \in tags[ty]

\* C8: a raw hit is in the returned tags exactly when it does not end with a
\* benign suffix, is not safelisted for its type and is not a numbered Excel
\* part found with low-confidence inclusion off; every returned tag is a raw
\* hit and no tag type is returned with no value.
C8_FilteredHits ==
    call.op = "_check_for_patterns" =>
        /\ \A h \in call.found :
            InTags(call.tags, h.type, h.ioc) <=>
                /\ ~ \E e \in PAT_ENDS : EndsWith(h.ioc, e)
                /\ ~ Oletools_is_safelisted(h.type, safe_str(h.ioc))
                /\ ~ ( /\ h.type = "file.name.extracted"
                       /\ ExcelBinMatch(h.ioc)
                       /\ ~call.include_fpos )
        /\ \A ty \in DOMAIN call.tags :
            /\ call.tags[ty] # {}
            /\ \A ioc \in call.tags[ty] : Hit(ty, ioc) \in call.found

\* C8's case: a numbered Excel part dropped with low-confidence inclusion
\* off, beside a hit that survives.
C8_Witness ==
    /\ call.op = "_check_for_patterns"
    /\ ~call.include_fpos
    /\ Hit("file.name.extracted", "sheet12.bin") \in call.found
    /\ ~InTags(call.tags, "file.name.extracted", "sheet12.bin")
    /\ DOMAIN call.tags # {}

\* the claim's extraction-worthiness of one hit
ExtractionWorthy(ty, val, strict) ==
    ~ ( \/ (ty = "file.string.blacklisted" /\ val = "http")
        \/ (~strict /\ ty = "network.email.address")
        \/ (~strict /\ ty = "file.string.api" /\ Lower(val) = "connect")
        \/ (~strict /\ ty = "file.string.blacklisted" /\ Lower(val) \in BLACKLIST_IGNORE)
        \/ (ty = "file.name.extracted" /\ StartsWith(val, "oleObject"))
        \/ ( /\ ty = "file.name.extracted"
             /\ SplitExt(val) # ""
             /\ Upper(SplitExt(val)) \notin FILES_OF_INTEREST ) )

\* C9: the flag returned is true exactly when some returned hit is
\* extraction-worthy; dropped hits do not count.
C9_ExtractFlag ==
    call.op = "_check_for_patterns" =>
        (call.extract <=>
            \E ty \in DOMAIN call.tags : \E val \in call.tags[ty] :
                ExtractionWorthy(ty, val, call.include_fpos))

\* C9's case: the flag is false although a dropped hit is extraction-worthy
\* and a surviving hit is not.
C9_Witness ==
    /\ call.op = "_check_for_patterns"
    /\ ~call.extract
    /\ DOMAIN call.tags # {}
    /\ \E h \in call.found :
        /\ ~InTags(call.tags, h.type, h.ioc)
        /\ ExtractionWorthy(h.type, h.ioc, call.include_fpos)

\* the claim's classification of a token with a scheme and an acceptable
\* hostname
HostClassified(r, check_uri, lib) ==
    LET url == urlsplit(FirstToken(check_uri))
        host == hostname(url)
        octets == inet_aton(host)
    IN  ( /\ ~url.error
          /\ url.scheme # ""
          /\ host # ""
          /\ InChars(CharAt(host, 1), LowerChars \o DigitChars \o ".-") ) =>
            /\ r.url # ""
            /\ is_valid_domain(host) =>
                    (r.kind = "network.static.domain" /\ r.host = host)
            /\ ( /\ ~is_valid_domain(host)
                 /\ octets # <<>>
                 /\ is_valid_ip(compressed(octets))
                 /\ ~is_ip_reserved(compressed(octets), lib) ) =>
                    (r.kind = "network.static.ip" /\ r.host = compressed(octets))
            /\ ( /\ ~is_valid_domain(host)
                 /\ \/ octets = <<>>
                    \/ ~is_valid_ip(compressed(octets))
                    \/ is_ip_reserved(compressed(octets), lib) ) =>
                    (r.kind = "" /\ r.host = "")

\* the parts of the claim that hold of every result
HostKindAgrees(r) ==
    /\ r.kind \in {"", "network.static.ip", "network.static.domain"}
    /\ r.kind = "" <=> r.host = ""
    /\ r.host # "" => r.url # ""

\* C10 as stated: parse_uri classifies the host as the claim says, the
\* hostname kind is empty exactly when the hostname is, a non-empty hostname
\* comes with a non-empty url, and http://example.com/a/b gives domain
\* example.com, http://192.0.2.1/x gives ip 192.0.2.1 and http://127.0.0.1/x
\* gives an empty hostname.
C10_HostClassification ==
    call.op = "parse_uri" =>
        /\ HostClassified(call.ret, call.check_uri, call.lib)
        /\ HostKindAgrees(call.ret)
        /\ call.check_uri = "http://example.com/a/b" =>
            (call.ret.kind = "network.static.domain" /\ call.ret.host = "example.com")
        /\ call.check_uri = "http://192.0.2.1/x" =>
            (call.ret.kind = "network.static.ip" /\ call.ret.host = "192.0.2.1")
        /\ call.check_uri = "http://127.0.0.1/x" => call.ret.host = ""

\* C10 as amended: the same, except that http://192.0.2.1/x gives ip
\* 192.0.2.1 only where the library's reserved table does not list the
\* address, and gives an empty hostname where it does.
C10_HostClassificationPerLibrary ==
    call.op = "parse_uri" =>
        /\ HostClassified(call.ret, call.check_uri, call.lib)
        /\ HostKindAgrees(call.ret)
        /\ call.check_uri = "http://example.com/a/b" =>
            (call.ret.kind = "network.static.domain" /\ call.ret.host = "example.com")
        /\ call.check_uri = "http://192.0.2.1/x" =>
            IF is_ip_reserved("192.0.2.1", call.lib)
            THEN call.ret = [url |-> "http://192.0.2.1/x", kind |-> "", host |-> ""]
            ELSE call.ret = [url |-> "http://192.0.2.1/x", kind |-> "network.static.ip",
                             host |-> "192.0.2.1"]
        /\ call.check_uri = "http://127.0.0.1/x" => call.ret.host = ""

\* C10's case: the test-net address parsed under a library that lists it.
C10_Witness ==
    /\ call.op = "parse_uri"
    /\ call.check_uri = "http://192.0.2.1/x"
    /\ is_ip_reserved("192.0.2.1", call.lib)
    /\ call.ret.url # ""
    /\ call.ret.host = ""

\* C11: for every link type and every link text, _process_link (and the
\* parse_uri call inside it) returns normally instead of raising to the caller.
C11_LinkNeverRaises ==
    call.op = "_process_link" => ~call.ret.raised

\* the link of the recorded call, percent-decoded and stripped
CallUnescaped == Strip(unquote(safe_str(call.link)))

CallHasMarker == Contains(CallUnescaped, SyncAppvMarker)

HostKinds == {"network.static.domain", "network.static.ip"}

\* C12: a _process_link call that returns gives an empty tag set exactly when
\* the link contains SyncAppvPublishingServer.vbs (the text after the marker
\* is then the last candidate offered, as .ps1, and nothing is parsed) or no
\* hostname resolves from the unwrapped link; otherwise the tags hold the url
\* under network.static.uri and the hostname under exactly one hostname kind,
\* and the lower-cased link type is a triggered signature.
C12_LinkTagsShape ==
    (call.op = "_process_link" /\ ~call.ret.raised) =>
        LET ret == call.ret
            r == parse_uri(ret.parsed, call.lib)
        IN  /\ ret.tags = NoTags <=>
                (CallHasMarker \/ (ret.parsed # None /\ r.host = ""))
            /\ CallHasMarker =>
                /\ ret.parsed = None
                /\ ret.offers # << >>
                /\ ret.offers[Len(ret.offers)].file_name = ".ps1"
                /\ CallUnescaped =
                      Take(CallUnescaped, FindStr(CallUnescaped, SyncAppvMarker) - 1)
                        \o SyncAppvMarker \o ret.offers[Len(ret.offers)].data
            /\ ret.tags # NoTags =>
                /\ "network.static.uri" \in DOMAIN ret.tags
                /\ ret.tags["network.static.uri"][1] = r.url
                /\ Cardinality(DOMAIN ret.tags \cap HostKinds) = 1
                /\ DOMAIN ret.tags \cap HostKinds = {r.kind}
                /\ ret.tags[r.kind] = << r.host >>
                /\ Lower(call.link_type) \in ret.signatures

\* C12's case: an unwrapped link of a mixed-case link type resolves to an IP
\* address and the tags are not empty.
C12_Witness ==
    /\ call.op = "_process_link"
    /\ ~call.ret.raised
    /\ call.link_type = "oleObject"
    /\ call.ret.parsed # call.link
    /\ "network.static.ip" \in DOMAIN call.ret.tags

\* the text parse_uri is handed when the mshta command replaces the link
ParsedFromCommand == LinkAfterUnc(LinkAfterMhtml(MshtaUnwrap(CallUnescaped).command))

CallIsMshta ==
    /\ call.op = "_process_link"
    /\ ~call.ret.raised
    /\ StartsWith(CallUnescaped, "mshta")
    /\ ~CallHasMarker

ScriptOffered ==
    \E i \in 1..Len(call.ret.offers) :
        /\ call.ret.offers[i].data = MshtaUnwrap(CallUnescaped).script
        /\ call.ret.offers[i].file_name = ".mshta_" \o MshtaUnwrap(CallUnescaped).script_type

LinkSafelisted(S, r) ==
    \/ SafelistedUnder(S, "network.static.uri", r.url)
    \/ SafelistedUnder(S, r.kind, r.host)

CallSuppressed ==
    /\ call.op = "_process_link"
    /\ ~call.ret.raised
    /\ call.ret.tags # NoTags
    /\ LinkSuppressed(CurrentSafelist, Lower(call.link_type),
                      parse_uri(call.ret.parsed, call.lib))

ZeroedScores == [sig \in {Lower(call.link_type), "unc_path", "external_link_ip"} |-> 0]

\* C14 as stated: when the url or the hostname is safelisted, or the link
\* type is oleobject and the hostname contains .sharepoint., the link type,
\* unc_path and external_link_ip scores are zeroed and no other, while the
\* tags and the other signatures are those the same link has under any
\* safelist state that does not safelist it.
C14_SuppressionScoresOnly ==
    CallSuppressed =>
        /\ call.ret.score_map = ZeroedScores
        /\ \A T \in SafelistStates :
            ~LinkSafelisted(T, parse_uri(call.ret.parsed, call.lib)) =>
                LET other == process_link(T, call.lib, call.link_type, call.link)
                IN  /\ other.tags = call.ret.tags
                    /\ other.signatures = call.ret.signatures

WithoutKey(f, key) == [k \in DOMAIN f \ {key} |-> f[k]]

\* C14 as amended: the same, except that the file.name.extracted tag and the
\* link_to_executable signature are set apart: they are present exactly when
\* the file name of the url has an executable extension other than .com and
\* is not itself safelisted, which the safelist entry that safelists the url
\* may decide as well.
C14_SuppressionKeepsLinkTags ==
    CallSuppressed =>
        /\ call.ret.score_map = ZeroedScores
        /\ "network.static.uri" \in DOMAIN call.ret.tags
        /\ DOMAIN call.ret.tags \cap HostKinds # {}
        /\ ("file.name.extracted" \in DOMAIN call.ret.tags)
              <=> ("link_to_executable" \in call.ret.signatures)
        /\ ("link_to_executable" \in call.ret.signatures)
              <=> LinkToExecutable(CurrentSafelist, parse_uri(call.ret.parsed, call.lib))
        /\ \A T \in SafelistStates :
            ~LinkSafelisted(T, parse_uri(call.ret.parsed, call.lib)) =>
                LET other == process_link(T, call.lib, call.link_type, call.link)
                IN  /\ WithoutKey(other.tags, "file.name.extracted")
                        = WithoutKey(call.ret.tags, "file.name.extracted")
                    /\ other.signatures \ {"link_to_executable"}
                        = call.ret.signatures \ {"link_to_executable"}

\* C14's case: a link safelisted by an entry that also safelists its file
\* name, beside a safelist state that safelists neither.
C14_Witness ==
    /\ CallSuppressed
    /\ LinkSafelisted(CurrentSafelist, parse_uri(call.ret.parsed, call.lib))
    /\ "file.name.extracted" \notin DOMAIN call.ret.tags
    /\ \E T \in SafelistStates :
        /\ ~LinkSafelisted(T, parse_uri(call.ret.parsed, call.lib))
        /\ "file.name.extracted" \in
              DOMAIN process_link(T, call.lib, call.link_type, call.link).tags

\* the links of the recorded report whose score lies in lo..(hi - 1)
LinksScoring(lo, hi) ==
    { call.processed[i].link : i \in { j \in 1..Len(call.processed) :
            call.processed[j].score >= lo /\ call.processed[j].score < hi } }

\* the partition of the recorded links by verdict, empty classes left out
DirectPartition ==
    { p \in { << "Malicious External Relationship Targets", LinksScoring(1000, 1000000) >>,
              << "Suspicious External Relationship Targets", LinksScoring(500, 1000) >>,
              << "Informative External Relationship Targets", LinksScoring(0 - 1000000, 500) >> } :
        p[2] # {} }

SectionLinks(section) == { section.grouped_links[i] : i \in 1..Len(section.grouped_links) }

\* C15: the sections reported for the external links are the direct partition
\* of the links by verdict (Malicious from 1000, Suspicious from 500 and below
\* 1000, Informative otherwise): at most one section per verdict, every link in
\* exactly one section and once, and the heuristic of a section is that of one
\* of its links with the highest score of the section.
C15_GroupingIsPartition ==
    call.op = "external_links" =>
        /\ \A k, l \in 1..Len(call.sections) :
              call.sections[k].title = call.sections[l].title => k = l
        /\ { << call.sections[k].title, SectionLinks(call.sections[k]) >> :
                k \in 1..Len(call.sections) } = DirectPartition
        /\ \A i \in 1..Len(call.processed) :
              Cardinality({ << k, n >> \in (1..Len(call.sections)) \X (1..Len(call.processed)) :
                              /\ n <= Len(call.sections[k].grouped_links)
                              /\ call.sections[k].grouped_links[n] = i }) = 1
        /\ \A k \in 1..Len(call.sections) :
              /\ call.sections[k].heuristic.link \in SectionLinks(call.sections[k])
              /\ call.processed[call.sections[k].heuristic.link] = call.sections[k].heuristic
              /\ \A i \in SectionLinks(call.sections[k]) :
                    call.processed[i].score <= call.sections[k].heuristic.score

\* C15's case: links found in an order that alternates between verdicts, with
\* a score of exactly 1000 and one of exactly 500 among them.
C15_Witness ==
    /\ call.op = "external_links"
    /\ Len(call.processed) = 3
    /\ call.processed[1].score = 500
    /\ call.processed[2].score = 1000
    /\ call.processed[3].score = 999
    /\ Len(call.sections) = 2

\* the recorded deobfuscator call is on a text built around a character-code call
ChrCall == call.op = "_deobfuscator" /\ call.chr.name # ""

ChrNarrow == Lower(call.chr.name) \in { "chr", "chr$" }
ChrWide == Lower(call.chr.name) \in { "chrw", "chrw$" }

\* the code point the recorded character-code call asks for
ChrValue ==
    CASE call.chr.sign = " + " -> DigitsVal(call.chr.x, 10) + DigitsVal(call.chr.y, 10)
      [] call.chr.sign = " - " -> DigitsVal(call.chr.x, 10) - DigitsVal(call.chr.y, 10)
      [] OTHER -> DigitsVal(call.chr.x, 10)

\* the recorded character-code call as it was written
ChrWritten ==
    Codes(call.chr.name \o "(" \o call.chr.x
            \o (IF call.chr.sign = "" THEN "" ELSE call.chr.sign \o call.chr.y) \o ")")

\* the recorded result is the recorded text with each call replaced by r
ChrReplacedBy(r) ==
    call.ret = Codes(call.chr.before) \o r \o Codes(call.chr.after)
                    \o (IF call.chr.after = "" THEN << >> ELSE r)

C17_ConcatKeepsQuotes ==
    (call.op = "_deobfuscator" /\ call.text = Codes("\"abc\" & \"def\""))
        => call.ret = Codes("\"abc\"\"def\"")

\* C17 as amended: the deobfuscator removes every occurrence of the five
\* characters quote, space, ampersand, space, quote, so that "abc" & "def"
\* becomes the one literal "abcdef".
C17_ConcatMergesLiterals ==
    (call.op = "_deobfuscator" /\ call.text = Codes("\"abc\" & \"def\""))
        => call.ret = Codes("\"abcdef\"")

\* C17's case: the deobfuscator has run on "abc" & "def".
C17_Witness ==
    /\ call.op = "_deobfuscator"
    /\ call.text = Codes("\"abc\" & \"def\"")
    /\ Len(call.ret) < Len(call.text)

\* the words the recipe of the recorded text puts into it: each word of at
\* least three letters, as often as it is repeated
RecipeWords ==
    (IF Len(call.recipe.w1) >= 3 THEN call.recipe.n1 ELSE 0)
        + (IF Len(call.recipe.w2) >= 3 THEN call.recipe.n2 ELSE 0)

RecipeLetters ==
    (IF Len(call.recipe.w1) >= 3 THEN call.recipe.n1 * Len(call.recipe.w1) ELSE 0)
        + (IF Len(call.recipe.w2) >= 3 THEN call.recipe.n2 * Len(call.recipe.w2) ELSE 0)

\* C18: _flag_macro returns false for a text longer than the configured
\* maximum size and for a text with fewer than 32 words of three or more
\* letters or fewer than 128 letters in them; the fraction of a word has a
\* divisor of at least one and lies between 0 and 1, so does the score divided
\* by the word count, and a text is flagged only when that quotient is
\* strictly below the alert threshold.
C18_FlagMacroGuards ==
    call.op = "_flag_macro" =>
        /\ (call.max_size # NoMaxSize /\ Len(call.macro_text) > call.max_size) => ~call.ret
        /\ (RecipeWords < 32 \/ RecipeLetters < 128) => ~call.ret
        /\ call.stats.word_count = RecipeWords
        /\ call.stats.byte_count = RecipeLetters
        /\ \A word \in { Lower(w) : w \in { v \in { call.recipe.w1, call.recipe.w2 } :
                                                Len(v) >= 3 } } :
              /\ Len(word) - 2 >= 1
              /\ TriCount(word_chains, word) >= 0
              /\ TriCount(word_chains, word) <= Len(word) - 2
        /\ call.stats.score_den >= 1
        /\ call.stats.score_num >= 0
        /\ call.stats.score_num <= call.stats.score_den * call.stats.word_count
        /\ call.ret =>
              /\ call.stats.word_count >= 32
              /\ call.stats.score_num * call.min_alert.den
                    < call.min_alert.num * call.stats.score_den * call.stats.word_count

\* C18's case: a text within the maximum size, with words and letters enough
\* and some plausible words, flagged under one threshold.
C18_Witness ==
    /\ call.op = "_flag_macro"
    /\ call.max_size # NoMaxSize
    /\ call.stats.score_num > 0
    /\ call.ret

\* C19: the macro sections hold a VBA Stomping section if and only if the
\* structural stomping flag is set, or the scan of the p-code is suspicious
\* while the scan of the macro source is not.
C19_StompingDecision ==
    call.op = "_create_macro_sections" =>
        (call.ret.reported <=>
            (vba_stomping \/ (call.pcode.suspicious /\ ~call.vba.suspicious)))

\* C19's case: stomping reported on the scans alone, the flag not set.
C19_Witness ==
    /\ call.op = "_create_macro_sections"
    /\ ~vba_stomping
    /\ call.vba.matches # << >>
    /\ call.ret.reported

\* the positions of the p-code matches that the macro source does not have
StompKept ==
    { j \in 1..Len(call.pcode.matches) :
        \A i \in 1..Len(call.vba.matches) : call.vba.matches[i] # call.pcode.matches[j] }

\* the reported diff is the p-code matches at the kept positions, in order
StompDiffExact ==
    /\ Len(call.ret.pcode_dump) = Cardinality(StompKept)
    /\ \A j \in StompKept :
          call.ret.pcode_dump[Cardinality({ k \in StompKept : k <= j })] = call.pcode.matches[j]

\* C20 as stated: a reported stomping shows the p-code matches that are not
\* among the macro source matches, in their order; and with no macro source
\* match, the one p-code match Shell and the flag not set, stomping is
\* reported with the diff Shell.
C20_StompingDiff ==
    call.op = "_create_macro_sections" =>
        /\ call.ret.reported => StompDiffExact
        /\ (call.vba.matches = << >> /\ call.pcode.matches = << "Shell" >> /\ ~vba_stomping)
              => (call.ret.reported /\ call.ret.pcode_dump = << "Shell" >>)

\* C20 as amended: the same diff; with no macro source match and the flag not
\* set, stomping is reported exactly when the p-code scan is suspicious, the
\* diff then being all the p-code matches, and the one p-code match Shell is
\* not suspicious and reports nothing.
C20_StompingDiffWhenSuspicious ==
    call.op = "_create_macro_sections" =>
        /\ call.ret.reported => StompDiffExact
        /\ (call.vba.matches = << >> /\ ~vba_stomping) =>
              /\ call.ret.reported <=> call.pcode.suspicious
              /\ call.ret.reported => call.ret.pcode_dump = call.pcode.matches
        /\ (call.vba.matches = << >> /\ call.pcode.matches = << "Shell" >> /\ ~vba_stomping)
              => ~call.ret.reported

\* C20's case: a reported stomping whose diff leaves out a p-code match that
\* the macro source has as well.
C20_Witness ==
    /\ call.op = "_create_macro_sections"
    /\ call.ret.reported
    /\ call.ret.pcode_dump # << >>
    /\ Len(call.ret.pcode_dump) < Len(call.pcode.matches)

\* the printable bytes of a candidate, read off its content
PrintableOf(data) ==
    { B64Content[data][i].byte : i \in DOMAIN B64Content[data] } \cap 32..126

\* the number of printable bytes of a candidate other than the space
InkOf(data) ==
    RunsLen(SelectSeq(B64Content[data], LAMBDA r : r.byte \in 33..126))

\* C21: within one call of _check_for_b64 each distinct decoded payload
\* yields at most one result entry; a payload whose size is not strictly
\* between 30 and 8,000,000 bytes yields none; a payload of more than 500
\* bytes yields an entry, and the offer of the binary as _b64_decoded, only
\* if its MIME type is octet-stream; a payload of at most 500 bytes yields an
\* entry only if its printable projection has at least 7 distinct characters
\* and at least 15 characters that are not whitespace.
C21_B64Acceptance ==
    call.op = "_check_for_b64" =>
        LET entries == call.ret.entries
            offers == call.ret.offers
        IN  /\ \A i, j \in DOMAIN entries : entries[i].data = entries[j].data => i = j
            /\ \A i \in DOMAIN entries :
                LET d == entries[i].data
                    size == RunsLen(B64Content[d])
                IN  /\ d \in Range(call.found)
                    /\ 30 < size /\ size < 8000000
                    /\ size > 500 =>
                          /\ Contains(MimeType(d), "octet-stream")
                          /\ ~entries[i].dump
                    /\ size <= 500 =>
                          /\ Cardinality(PrintableOf(d)) >= 7
                          /\ InkOf(d) >= 15
                          /\ entries[i].dump
            /\ \A k \in DOMAIN offers :
                offers[k].file_name = "_b64_decoded" =>
                    /\ RunsLen(B64Content[offers[k].data]) > 500
                    /\ Contains(MimeType(offers[k].data), "octet-stream")
                    /\ \E i \in DOMAIN entries : entries[i].data = offers[k].data

\* a call in which a payload of 501 bytes was found twice and gave one entry,
\* the binary offered
C21_Witness ==
    /\ call.op = "_check_for_b64"
    /\ Len(call.found) = 2
    /\ call.found[1] = call.found[2]
    /\ Len(call.ret.entries) = 1
    /\ ~call.ret.entries[1].dump
    /\ call.ret.entries[1].size = 501
    /\ << call.found[1], "_b64_decoded" >> \in offered

\* C22: the tags attached to a base64 result entry have passed the
\* benign-suffix and safelist filters of the IOC pattern matcher: no value
\* with a benign suffix and no safelisted value is tagged on an entry.
C22_B64TagsFiltered ==
    call.op = "_check_for_b64" =>
        \A i \in DOMAIN call.ret.entries :
            LET tags == call.ret.entries[i].tags
            IN  \A t \in DOMAIN tags : \A v \in tags[t] :
                    /\ ~(\E e \in PAT_ENDS : EndsWith(v, e))
                    /\ ~SafelistedUnder(CurrentSafelist, t, safe_str(v))

\* the stages of the try block that execute() calls for the request of the
\* recorded call
StagesDue ==
    SelectSeq(ExecuteStages,
        LAMBDA st :
            CASE st.fn = "_rip_mhtml" -> call.req.file_type = "document/office/mhtml"
              [] st.fn = "_extract_rtf" -> call.req.file_type # "document/installer/windows"
              [] st.fn \in {"_check_zip", "_check_xml_strings"} -> call.req.is_zip
              [] OTHER -> TRUE)

\* C23: a failure in one stage of execute() never prevents the later stages
\* from running: every stage due for the request is called, whatever the
\* earlier stages came to.
C23_StagesIsolated ==
    call.op = "execute" => call.ret.called = StagesDue

\* C27: execute() adds at most one "OleID indicators" section to the result
\* of a submission.
C27_OneIndicatorSection ==
    call.op = "execute" =>
        Cardinality({ i \in DOMAIN call.ret.sections :
                        call.ret.sections[i].title = "OleID indicators" }) <= 1

\* the values that appear under a tag type in any input of the recorded call
ValuesUnder(t) ==
    UNION { Range(call.tags_list[i][t]) :
                i \in { k \in DOMAIN call.tags_list : t \in DOMAIN call.tags_list[k] } }

\* the tag types of the inputs of the recorded call
TypesGiven == UNION { DOMAIN call.tags_list[i] : i \in DOMAIN call.tags_list }

\* the inputs of the recorded call in the order p
Reordered(p) == [i \in DOMAIN call.tags_list |-> call.tags_list[p[i]]]

\* the orders of the inputs of the recorded call
InputOrders ==
    { p \in [DOMAIN call.tags_list -> DOMAIN call.tags_list] :
        Range(p) = DOMAIN call.tags_list }

\* C24: collate_tags is a per-key set union: the result maps each tag type
\* of the inputs to exactly the values that appear under it in any input,
\* without duplicates, and every permutation of the inputs gives the same
\* mapping from types to sets of values.
C24_CollateIsUnion ==
    call.op = "collate_tags" =>
        /\ DOMAIN call.ret = TypesGiven
        /\ \A t \in DOMAIN call.ret :
            /\ Range(call.ret[t]) = ValuesUnder(t)
            /\ Len(call.ret[t]) = Cardinality(ValuesUnder(t))
        /\ \A p \in InputOrders :
            \A other \in collate_tags(Reordered(p)) :
                /\ DOMAIN other = DOMAIN call.ret
                /\ \A t \in DOMAIN other : Range(other[t]) = Range(call.ret[t])

\* a call whose two inputs share a type, each with a value the other lacks
\* and one value twice
C24_Witness ==
    /\ call.op = "collate_tags"
    /\ Len(call.tags_list) = 2
    /\ "network.static.domain" \in DOMAIN call.tags_list[1] \cap DOMAIN call.tags_list[2]
    /\ call.tags_list[1]["network.static.domain"] = << "a.com", "a.com" >>
    /\ call.tags_list[2]["network.static.domain"] = << "evil.com" >>
    /\ "network.static.uri" \in DOMAIN call.tags_list[2] \ DOMAIN call.tags_list[1]
    /\ call.ret["network.static.domain"] = << "evil.com", "a.com" >>

C28_NetworkSectionReported ==
    (/\ call.op = "_create_macro_sections"
     /\ call.network_section.tags # {} \/ call.network_section.lines # {})
        => /\ InSeq(call.network_section.title, call.subsections)
           /\ call.network_section.heuristic <=> call.network_section.frequency > 0

\* C26: every pattern scan _check_xml_strings applies to the content of a
\* zipped part runs over at most 500,000 bytes, and each part longer than
\* that is reported by one line and one increment of the frequency of the
\* "Files too large to be fully scanned" heuristic.
C26_XmlScanBound ==
    call.op = "_check_xml_strings" =>
        /\ \A i \in DOMAIN call.ret.scans : call.ret.scans[i].bytes <= 500000
        /\ call.ret.big_frequency = Len(call.ret.big_lines)
        /\ \A k \in DOMAIN call.parts :
            Cardinality({ i \in DOMAIN call.ret.big_lines :
                            call.ret.big_lines[i] = call.parts[k].name }) <= 1

\* the stream is taken by the Ole10Native or the PowerPoint branch
StreamConsumed(s) ==
    \/ Contains(s.name, "Ole10Native") /\ StreamContent[s.data].native # ""
    \/ Contains(s.name, "PowerPoint Document") /\ StreamContent[s.data].ppt

\* no earlier stream of the file holds the same content
FirstOfContent(streams, i) == \A k \in 1..(i - 1) : streams[k].data # streams[i].data

\* the run offered the data to the sink under the suffix
OfferedAs(ret, data, suffix) ==
    \E j \in DOMAIN ret.offers :
        ret.offers[j].data = data /\ ret.offers[j].file_name = suffix

\* C29: a stream whose content matches a suspicious-string pattern, whose
\* name does not contain _VBA_PROJECT and which neither the Ole10Native nor
\* the PowerPoint branch takes, is offered to the sink as an .ole_stream
\* artifact, whatever the IOC scan and the base64 search find in it.
C29_SuspiciousStreamExtracted ==
    call.op = "_process_ole_file" =>
        \A i \in DOMAIN call.streams :
            LET s == call.streams[i]
            IN  ( /\ FirstOfContent(call.streams, i)
                  /\ StreamContent[s.data].sus
                  /\ ~Contains(s.name, "_VBA_PROJECT")
                  /\ ~StreamConsumed(s) )
                    => OfferedAs(call.ret, s.data, ".ole_stream")

\* C30: with extract_all and is_installer false, a stream is offered as an
\* .ole_stream artifact exactly when it is offered in a file that holds it
\* alone, whichever streams come before it; and a stream is named in the
\* Flash section only if an SWF object confirmed in it was offered.
C30_StreamsIndependent ==
    ( /\ call.op = "_process_ole_file"
      /\ ~call.extract_all
      /\ ~call.is_installer ) =>
        \A i \in DOMAIN call.streams :
            LET s == call.streams[i]
                alone == process_ole_file(CurrentSafelist, << s >>, FALSE, FALSE)
            IN  FirstOfContent(call.streams, i) =>
                    /\ OfferedAs(call.ret, s.data, ".ole_stream")
                        <=> OfferedAs(alone, s.data, ".ole_stream")
                    /\ s.name \in Range(call.ret.swf_body) =>
                        \E w \in Range(StreamContent[s.data].swf) :
                            OfferedAs(call.ret, w, ".swf")

====
